---- MODULE Spec2Model ----
(***************************************************************************)
(* anaxa-builder: the dependency graph validator (graph.rs), the           *)
(* expression evaluator (logic.rs), the value store (config_io.rs,         *)
(* schema.rs) and the interactive editor state machine (tui/mod.rs).       *)
(*                                                                         *)
(* Strings of the program are sequences of one-character strings, so that  *)
(* tokenizing, parsing and formatting are computed, not assumed.           *)
(***************************************************************************)
EXTENDS Integers, Sequences, FiniteSets, TLC

VARIABLES
    items,      \* graph.rs: the flattened item list handed to ConfigGraph::build
    result,     \* graph.rs: what ConfigGraph::build returned ("none" before the call)
    app,        \* tui/mod.rs: the App the event loop owns (UiState included)
    disk,       \* the config file at app.config_path: None, or its content
    writable,   \* whether a write to app.config_path succeeds
    pc,         \* run_app: "draw" before terminal.draw, "event" before
                \* event::read, "done" once run_app has returned
    turn,       \* the turn of the loop just taken: the event read, and the App
                \* and the file as handle_event found them
    call        \* the library function or command that is run outside the editor,
                \* with its arguments; result is then what it returned

vars == <<items, result, app, disk, writable, pc, turn, call>>

(***************************************************************************)
(* Bounds of the model.                                                    *)
(***************************************************************************)
MaxItems == 3     \* the longest item list handed to ConfigGraph::build
MaxInput == 3     \* the longest Int or Hex draft typed into an edit session
MaxText == 2      \* the longest String draft typed into an edit session
MaxValue == 30    \* the largest integer committed from a draft
MaxDepth == 2     \* the deepest directory that holds a Kconfig.toml
MaxEntries == 2   \* the most entries of a config file read outside the editor
MaxExpr == 3      \* the longest expression handed to extract_variables

(***************************************************************************)
(* Option<T>: None is the empty sequence, Some(x) the one-element one.     *)
(***************************************************************************)
None == <<>>
Some(x) == <<x>>
IsSome(o) == o # <<>>
Unwrap(o) == o[1]

Min(a, b) == IF a <= b THEN a ELSE b

(***************************************************************************)
(* Characters.                                                             *)
(***************************************************************************)
Digits == {"0", "1", "2", "3", "4", "5", "6", "7", "8", "9"}
Letters ==
    {"A", "B", "C", "D", "E", "F", "G", "H", "I", "J", "K", "L", "M", "N", "O", "P",
     "Q", "R", "S", "T", "U", "V", "W", "X", "Y", "Z",
     "a", "b", "c", "d", "e", "f", "g", "h", "i", "j", "k", "l", "m", "n", "o", "p",
     "q", "r", "s", "t", "u", "v", "w", "x", "y", "z"}

is_numeric(c) == c \in Digits
is_alphanumeric(c) == c \in Digits \cup Letters

(***************************************************************************)
(* graph.rs: extract_variables.  str::split yields every segment between   *)
(* separators, the empty ones included; the filter then drops the empty    *)
(* segments and those that start with a digit.                             *)
(***************************************************************************)
IsSeparator(c) == ~is_alphanumeric(c) /\ c # "_"

RECURSIVE split(_, _, _)
split(expr, k, cur) ==
    IF k > Len(expr) THEN <<cur>>
    ELSE IF IsSeparator(expr[k]) THEN <<cur>> \o split(expr, k + 1, <<>>)
    ELSE split(expr, k + 1, Append(cur, expr[k]))

KeepSegment(s) == s # <<>> /\ ~is_numeric(s[1])

NonEmptySegment(s) == s # <<>>

\* a bug: the segments that start with a digit are kept
extract_variables_KeepsNumbers(expr) == SelectSeq(split(expr, 1, <<>>), NonEmptySegment)

extract_variables(expr) == SelectSeq(split(expr, 1, <<>>), KeepSegment)

(***************************************************************************)
(* schema.rs: ConfigItem.  config_type is one of "Bool", "Int", "Hex",     *)
(* "String", "Choice"; default, depends_on, options, range and regex are   *)
(* Options.                                                                *)
(***************************************************************************)
ConfigItem(name, config_type, default, depends_on, options, range, regex) ==
    [name |-> name, config_type |-> config_type, default |-> default,
     depends_on |-> depends_on, options |-> options, range |-> range,
     regex |-> regex]

\* graph.rs tests: create_item, a Bool item with nothing but a name and a depends_on
create_item(name, depends_on) ==
    ConfigItem(name, "Bool", None, depends_on, None, None, None)

Range(s) == {s[k] : k \in DOMAIN s}

(***************************************************************************)
(* petgraph DiGraphMap as ConfigGraph::build uses it: the nodes in         *)
(* insertion order, one adjacency list per node, and the set of edge keys. *)
(***************************************************************************)
EmptyGraph == [nodes |-> <<>>, adj |-> <<>>, edges |-> {}]

add_node(g, n) ==
    IF n \in Range(g.nodes) THEN g
    ELSE [g EXCEPT !.nodes = Append(@, n), !.adj = @ @@ (n :> <<>>)]

\* a bug: the adjacency lists grow even when the edge key is already present
add_edge_NoDedup(g, a, b) ==
    LET g1 == add_node(add_node(g, a), b)
        g2 == [g1 EXCEPT !.edges = @ \cup {<<a, b>>},
                         !.adj[a] = Append(@, <<b, "Outgoing">>)]
    IN  IF a # b THEN [g2 EXCEPT !.adj[b] = Append(@, <<a, "Incoming">>)] ELSE g2

add_edge(g, a, b) ==
    IF <<a, b>> \in g.edges THEN g
    ELSE LET g1 == add_node(add_node(g, a), b)
             g2 == [g1 EXCEPT !.edges = @ \cup {<<a, b>>},
                              !.adj[a] = Append(@, <<b, "Outgoing">>)]
         IN  IF a # b THEN [g2 EXCEPT !.adj[b] = Append(@, <<a, "Incoming">>)]
             ELSE g2

contains_edge(g, a, b) == <<a, b>> \in g.edges

IsOutgoing(e) == e[2] = "Outgoing"

\* the targets of the outgoing edges of n, in the order the edges were added
neighbors(g, n) ==
    LET out == SelectSeq(g.adj[n], IsOutgoing)
    IN  [k \in DOMAIN out |-> out[k][1]]

(***************************************************************************)
(* petgraph::algo::tarjan_scc: a depth-first search from every node in     *)
(* insertion order; a component is emitted when its root is finished, so   *)
(* the components come out in postorder.                                   *)
(***************************************************************************)
TarjanInit(g) ==
    [counter |-> 0,
     index   |-> [n \in Range(g.nodes) |-> -1],
     lowlink |-> [n \in Range(g.nodes) |-> -1],
     stack   |-> <<>>,
     sccs    |-> <<>>]

\* the position of v on the stack
StackPos(stack, v) == CHOOSE k \in DOMAIN stack : stack[k] = v

RECURSIVE TarjanVisit(_, _, _)
RECURSIVE TarjanNeighbors(_, _, _, _, _)

TarjanNeighbors(g, v, ns, k, st) ==
    IF k > Len(ns) THEN st
    ELSE LET w == ns[k]
             st1 == IF st.index[w] = -1
                    THEN LET s == TarjanVisit(g, w, st)
                         IN  [s EXCEPT !.lowlink[v] = Min(@, s.lowlink[w])]
                    ELSE IF w \in Range(st.stack)
                    THEN [st EXCEPT !.lowlink[v] = Min(@, st.index[w])]
                    ELSE st
         IN  TarjanNeighbors(g, v, ns, k + 1, st1)

TarjanVisit(g, v, st) ==
    LET st1 == [st EXCEPT !.counter = @ + 1,
                          !.index[v] = st.counter,
                          !.lowlink[v] = st.counter,
                          !.stack = Append(@, v)]
        st2 == TarjanNeighbors(g, v, neighbors(g, v), 1, st1)
    IN  IF st2.lowlink[v] = st2.index[v]
        THEN LET p == StackPos(st2.stack, v)
             IN  [st2 EXCEPT !.stack = SubSeq(@, 1, p - 1),
                             !.sccs = Append(@, SubSeq(st2.stack, p, Len(st2.stack)))]
        ELSE st2

RECURSIVE TarjanRoots(_, _, _)
TarjanRoots(g, k, st) ==
    IF k > Len(g.nodes) THEN st
    ELSE TarjanRoots(g, k + 1,
                     IF st.index[g.nodes[k]] = -1
                     THEN TarjanVisit(g, g.nodes[k], st) ELSE st)

tarjan_scc(g) == TarjanRoots(g, 1, TarjanInit(g)).sccs

(***************************************************************************)
(* graph.rs: ConfigGraph::build.                                           *)
(***************************************************************************)
\* the names of the items: item_map's keys
ItemNames(its) == {its[k].name : k \in DOMAIN its}

RECURSIVE AddNodes(_, _, _)
AddNodes(g, its, k) ==
    IF k > Len(its) THEN g ELSE AddNodes(add_node(g, its[k].name), its, k + 1)

\* the inner loop: one edge per extracted variable that is an item name
RECURSIVE AddVarEdges(_, _, _, _, _)
AddVarEdges(g, names, vs, k, item) ==
    IF k > Len(vs) THEN g
    ELSE AddVarEdges(IF vs[k] \in names THEN add_edge(g, vs[k], item.name) ELSE g,
                     names, vs, k + 1, item)

RECURSIVE AddEdges(_, _, _)
AddEdges(g, its, k) ==
    IF k > Len(its) THEN g
    ELSE AddEdges(IF IsSome(its[k].depends_on)
                  THEN AddVarEdges(g, ItemNames(its),
                                   extract_variables(Unwrap(its[k].depends_on)),
                                   1, its[k])
                  ELSE g,
                  its, k + 1)

BuildGraph(its) == AddEdges(AddNodes(EmptyGraph, its, 1), its, 1)

BuildOk(g) == [kind |-> "ok", scc |-> <<>>, graph |-> g]
BuildErr(kind, scc) == [kind |-> kind, scc |-> scc, graph |-> EmptyGraph]

\* a bug: the self-edge test of a one-node component is left out
SccError_NoSelfCheck(g, scc) ==
    IF Len(scc) > 1 THEN BuildErr("Cycle detected", scc) ELSE BuildOk(g)

\* a bug: a self-edge is reported with the message of the larger components
SccError_SelfAsCycle(g, scc) ==
    IF Len(scc) > 1 \/ (Len(scc) = 1 /\ contains_edge(g, scc[1], scc[1]))
    THEN BuildErr("Cycle detected", scc)
    ELSE BuildOk(g)

\* the body of the loop over the components: the error of one component, or ok
SccError(g, scc) ==
    IF Len(scc) > 1 THEN BuildErr("Cycle detected", scc)
    ELSE IF Len(scc) = 1 /\ contains_edge(g, scc[1], scc[1])
    THEN BuildErr("Self-dependency cycle detected", scc)
    ELSE BuildOk(g)

RECURSIVE CheckSccs(_, _, _)
CheckSccs(g, sccs, k) ==
    IF k > Len(sccs) THEN BuildOk(g)
    ELSE IF SccError(g, sccs[k]).kind # "ok" THEN SccError(g, sccs[k])
    ELSE CheckSccs(g, sccs, k + 1)

build(its) ==
    LET g == BuildGraph(its) IN CheckSccs(g, tarjan_scc(g), 1)

(***************************************************************************)
(* toml::Value, as far as the value store uses it: a tagged scalar.        *)
(***************************************************************************)
VBoolean(b) == [t |-> "Boolean", b |-> b, i |-> 0, s |-> <<>>]
VInteger(i) == [t |-> "Integer", b |-> FALSE, i |-> i, s |-> <<>>]
VString(s) == [t |-> "String", b |-> FALSE, i |-> 0, s |-> s]

\* HashMap::insert
MapInsert(m, k, v) == (k :> v) @@ m

(***************************************************************************)
(* logic.rs: Evaluator.  The context maps a name to a Boolean, Int or      *)
(* String.  HashMapContext::set_value keeps the type of a variable that is *)
(* already bound: a value of another type is refused with an error.        *)
(***************************************************************************)
NewEvaluator == <<>>

set_variable(ctx, name, value) ==
    IF value.t \notin {"Boolean", "Integer", "String"} THEN ctx
    ELSE IF name \in DOMAIN ctx /\ ctx[name].t # value.t THEN ctx
    ELSE MapInsert(ctx, name, value)

(***************************************************************************)
(* The expression language of the depends_on expressions, as               *)
(* evalexpr::eval_with_context evaluates it: identifiers, integer          *)
(* literals, ! && || == != > < >= <= and parentheses.  Every operand is    *)
(* evaluated; an unbound identifier, an operand of the wrong type or a     *)
(* malformed expression is an error.                                       *)
(***************************************************************************)
IsWhitespace(c) == c \in {" ", "\t", "\n"}

Tok(k, s) == [k |-> k, s |-> s]

\* the end of the run of identifier characters that starts at position k
RECURSIVE WordEnd(_, _)
WordEnd(expr, k) ==
    IF k <= Len(expr) /\ (is_alphanumeric(expr[k]) \/ expr[k] = "_")
    THEN WordEnd(expr, k + 1) ELSE k

AllDigits(s) == \A k \in DOMAIN s : is_numeric(s[k])

NextIs(expr, k, c) == k + 1 <= Len(expr) /\ expr[k + 1] = c

RECURSIVE Lex(_, _)
Lex(expr, k) ==
    IF k > Len(expr) THEN <<>>
    ELSE LET c == expr[k] IN
         IF IsWhitespace(c) THEN Lex(expr, k + 1)
         ELSE IF is_alphanumeric(c) \/ c = "_"
         THEN LET e == WordEnd(expr, k)
                  w == SubSeq(expr, k, e - 1)
              IN  <<Tok(IF AllDigits(w) THEN "int" ELSE "id", w)>> \o Lex(expr, e)
         ELSE IF c \in {"(", ")"} THEN <<Tok("op", <<c>>)>> \o Lex(expr, k + 1)
         ELSE IF c \in {"&", "|"}
         THEN IF NextIs(expr, k, c) THEN <<Tok("op", <<c, c>>)>> \o Lex(expr, k + 2)
              ELSE <<Tok("bad", <<c>>)>>
         ELSE IF c \in {"!", ">", "<"}
         THEN IF NextIs(expr, k, "=") THEN <<Tok("op", <<c, "=">>)>> \o Lex(expr, k + 2)
              ELSE <<Tok("op", <<c>>)>> \o Lex(expr, k + 1)
         ELSE IF c = "=" /\ NextIs(expr, k, "=")
         THEN <<Tok("op", <<"=", "=">>)>> \o Lex(expr, k + 2)
         ELSE <<Tok("bad", <<c>>)>>

DigitVal(c) ==
    CASE c = "0" -> 0 [] c = "1" -> 1 [] c = "2" -> 2 [] c = "3" -> 3 [] c = "4" -> 4
      [] c = "5" -> 5 [] c = "6" -> 6 [] c = "7" -> 7 [] c = "8" -> 8 [] c = "9" -> 9
      [] c \in {"a", "A"} -> 10 [] c \in {"b", "B"} -> 11 [] c \in {"c", "C"} -> 12
      [] c \in {"d", "D"} -> 13 [] c \in {"e", "E"} -> 14 [] c \in {"f", "F"} -> 15
      [] OTHER -> 99

\* the number written by the digits ds in the given radix
RECURSIVE DigitsValue(_, _, _)
DigitsValue(ds, radix, acc) ==
    IF ds = <<>> THEN acc
    ELSE DigitsValue(Tail(ds), radix, acc * radix + DigitVal(Head(ds)))

\* the result of evaluating a subexpression: a value and the next position, or an error
EvOk(v, p) == [ok |-> TRUE, v |-> v, p |-> p]
EvErr == [ok |-> FALSE, v |-> VBoolean(FALSE), p |-> 0]

IsOp(ts, p, ops) == p <= Len(ts) /\ ts[p].k = "op" /\ ts[p].s \in ops

CmpOps == {<<"=", "=">>, <<"!", "=">>, <<">">>, <<"<">>, <<">", "=">>, <<"<", "=">>}

Compare(op, l, r) ==
    IF op = <<"=", "=">> THEN EvOk(VBoolean(l = r), 0)
    ELSE IF op = <<"!", "=">> THEN EvOk(VBoolean(l # r), 0)
    ELSE IF l.t # "Integer" \/ r.t # "Integer" THEN EvErr
    ELSE IF op = <<">">> THEN EvOk(VBoolean(l.i > r.i), 0)
    ELSE IF op = <<"<">> THEN EvOk(VBoolean(l.i < r.i), 0)
    ELSE IF op = <<">", "=">> THEN EvOk(VBoolean(l.i >= r.i), 0)
    ELSE EvOk(VBoolean(l.i <= r.i), 0)

RECURSIVE EvOr(_, _, _)
RECURSIVE EvOrRest(_, _, _, _)
RECURSIVE EvAnd(_, _, _)
RECURSIVE EvAndRest(_, _, _, _)
RECURSIVE EvCmp(_, _, _)
RECURSIVE EvCmpRest(_, _, _, _)
RECURSIVE EvUnary(_, _, _)
RECURSIVE EvAtom(_, _, _)

EvAtom(ctx, ts, p) ==
    IF p > Len(ts) THEN EvErr
    ELSE IF ts[p].k = "id"
    THEN IF ts[p].s \in DOMAIN ctx THEN EvOk(ctx[ts[p].s], p + 1) ELSE EvErr
    ELSE IF ts[p].k = "int" THEN EvOk(VInteger(DigitsValue(ts[p].s, 10, 0)), p + 1)
    ELSE IF IsOp(ts, p, {<<"(">>})
    THEN LET Close(r) == IF r.ok /\ IsOp(ts, r.p, {<<")">>}) THEN EvOk(r.v, r.p + 1) ELSE EvErr
         IN  Close(EvOr(ctx, ts, p + 1))
    ELSE EvErr

EvUnary(ctx, ts, p) ==
    IF IsOp(ts, p, {<<"!">>})
    THEN LET Not(r) == IF r.ok /\ r.v.t = "Boolean" THEN EvOk(VBoolean(~r.v.b), r.p) ELSE EvErr
         IN  Not(EvUnary(ctx, ts, p + 1))
    ELSE EvAtom(ctx, ts, p)

EvCmpRest(ctx, ts, l, p) ==
    IF IsOp(ts, p, CmpOps)
    THEN LET Compared(r, c) == IF r.ok /\ c.ok THEN EvCmpRest(ctx, ts, c.v, r.p) ELSE EvErr
             Right(r) == Compared(r, Compare(ts[p].s, l, r.v))
         IN  Right(EvUnary(ctx, ts, p + 1))
    ELSE EvOk(l, p)

EvCmp(ctx, ts, p) ==
    LET Left(l) == IF l.ok THEN EvCmpRest(ctx, ts, l.v, l.p) ELSE EvErr
    IN  Left(EvUnary(ctx, ts, p))

EvAndRest(ctx, ts, l, p) ==
    IF IsOp(ts, p, {<<"&", "&">>})
    THEN LET Right(r) == IF r.ok /\ l.t = "Boolean" /\ r.v.t = "Boolean"
                         THEN EvAndRest(ctx, ts, VBoolean(l.b /\ r.v.b), r.p) ELSE EvErr
         IN  Right(EvCmp(ctx, ts, p + 1))
    ELSE EvOk(l, p)

EvAnd(ctx, ts, p) ==
    LET Left(l) == IF l.ok THEN EvAndRest(ctx, ts, l.v, l.p) ELSE EvErr
    IN  Left(EvCmp(ctx, ts, p))

EvOrRest(ctx, ts, l, p) ==
    IF IsOp(ts, p, {<<"|", "|">>})
    THEN LET Right(r) == IF r.ok /\ l.t = "Boolean" /\ r.v.t = "Boolean"
                         THEN EvOrRest(ctx, ts, VBoolean(l.b \/ r.v.b), r.p) ELSE EvErr
         IN  Right(EvAnd(ctx, ts, p + 1))
    ELSE EvOk(l, p)

EvOr(ctx, ts, p) ==
    LET Left(l) == IF l.ok THEN EvOrRest(ctx, ts, l.v, l.p) ELSE EvErr
    IN  Left(EvAnd(ctx, ts, p))

\* evalexpr::eval_with_context: the value of the whole expression, or an error
eval_with_context(expr, ctx) ==
    LET Whole(ts, r) == IF \E k \in DOMAIN ts : ts[k].k = "bad" THEN EvErr
                        ELSE IF r.ok /\ r.p = Len(ts) + 1 THEN r ELSE EvErr
        Parse(ts) == Whole(ts, EvOr(ctx, ts, 1))
    IN  Parse(Lex(expr, 1))

\* Result<bool>
Ok(b) == [ok |-> TRUE, v |-> b]
Err == [ok |-> FALSE, v |-> FALSE]

\* Result::unwrap_or
unwrap_or(r, d) == IF r.ok THEN r.v ELSE d

trim_is_empty(expr) == \A k \in DOMAIN expr : IsWhitespace(expr[k])

\* a bug: is_empty without the trim
check_dependency_NoTrim(ctx, expr) ==
    IF expr = <<>> THEN Ok(TRUE)
    ELSE LET AsBool(val) == IF ~val.ok THEN Err
                            ELSE IF val.v.t = "Boolean" THEN Ok(val.v.b)
                            ELSE IF val.v.t = "Integer" THEN Ok(val.v.i # 0)
                            ELSE Ok(FALSE)
         IN  AsBool(eval_with_context(expr, ctx))

\* a bug: every integer counts as true
check_dependency_IntIsTrue(ctx, expr) ==
    IF trim_is_empty(expr) THEN Ok(TRUE)
    ELSE LET AsBool(val) == IF ~val.ok THEN Err
                            ELSE IF val.v.t = "Boolean" THEN Ok(val.v.b)
                            ELSE IF val.v.t = "Integer" THEN Ok(TRUE)
                            ELSE Ok(FALSE)
         IN  AsBool(eval_with_context(expr, ctx))

check_dependency(ctx, expr) ==
    IF trim_is_empty(expr) THEN Ok(TRUE)
    ELSE LET AsBool(val) == IF ~val.ok THEN Err
                            ELSE IF val.v.t = "Boolean" THEN Ok(val.v.b)
                            ELSE IF val.v.t = "Integer" THEN Ok(val.v.i # 0)
                            ELSE Ok(FALSE)
         IN  AsBool(eval_with_context(expr, ctx))

(***************************************************************************)
(* schema.rs: ConfigItem::validate.  The regex crate is modelled for the   *)
(* anchored one-class patterns ^[l-h]+$; any other pattern is one that     *)
(* Regex::new refuses.                                                     *)
(***************************************************************************)
CharOrder ==
    <<"0", "1", "2", "3", "4", "5", "6", "7", "8", "9",
      "A", "B", "C", "D", "E", "F", "G", "H", "I", "J", "K", "L", "M", "N", "O", "P",
      "Q", "R", "S", "T", "U", "V", "W", "X", "Y", "Z",
      "a", "b", "c", "d", "e", "f", "g", "h", "i", "j", "k", "l", "m", "n", "o", "p",
      "q", "r", "s", "t", "u", "v", "w", "x", "y", "z">>

CharOrd(c) ==
    IF c \in Range(CharOrder) THEN CHOOSE k \in DOMAIN CharOrder : CharOrder[k] = c ELSE 0

RegexNewOk(p) ==
    /\ Len(p) = 8
    /\ p[1] = "^" /\ p[2] = "[" /\ p[4] = "-" /\ p[6] = "]" /\ p[7] = "+" /\ p[8] = "$"
    /\ CharOrd(p[3]) > 0 /\ CharOrd(p[5]) >= CharOrd(p[3])

regex_is_match(p, val) ==
    /\ val # <<>>
    /\ \A k \in DOMAIN val :
           CharOrd(val[k]) >= CharOrd(p[3]) /\ CharOrd(val[k]) <= CharOrd(p[5])

\* a bug: the upper bound of a range is refused
validate_ExclusiveMax(item, value) ==
    CASE item.config_type = "Bool" -> value.t = "Boolean"
      [] item.config_type \in {"Int", "Hex"} ->
            /\ value.t = "Integer"
            /\ IsSome(item.range) =>
                   ~(value.i < Unwrap(item.range)[1] \/ value.i >= Unwrap(item.range)[2])
      [] item.config_type = "String" ->
            /\ value.t = "String"
            /\ IsSome(item.regex) =>
                   (RegexNewOk(Unwrap(item.regex)) /\ regex_is_match(Unwrap(item.regex), value.s))
      [] item.config_type = "Choice" ->
            /\ value.t = "String"
            /\ IsSome(item.options) => value.s \in Range(Unwrap(item.options))

\* TRUE when validate returns Ok(())
validate(item, value) ==
    CASE item.config_type = "Bool" -> value.t = "Boolean"
      [] item.config_type \in {"Int", "Hex"} ->
            /\ value.t = "Integer"
            /\ IsSome(item.range) =>
                   ~(value.i < Unwrap(item.range)[1] \/ value.i > Unwrap(item.range)[2])
      [] item.config_type = "String" ->
            /\ value.t = "String"
            /\ IsSome(item.regex) =>
                   (RegexNewOk(Unwrap(item.regex)) /\ regex_is_match(Unwrap(item.regex), value.s))
      [] item.config_type = "Choice" ->
            /\ value.t = "String"
            /\ IsSome(item.options) => value.s \in Range(Unwrap(item.options))

(***************************************************************************)
(* schema.rs: ConfigNode, and parser.rs: flatten_configs.                  *)
(***************************************************************************)
ConfigNode(desc, configs, children, path, depends_on) ==
    [desc |-> desc, configs |-> configs, children |-> children, path |-> path,
     depends_on |-> depends_on]

RECURSIVE flatten_configs(_)
RECURSIVE FlattenChildren(_, _)
FlattenChildren(children, k) ==
    IF k > Len(children) THEN <<>>
    ELSE flatten_configs(children[k]) \o FlattenChildren(children, k + 1)

\* a bug: the items of the children come before the node's own
flatten_configs_ChildrenFirst(node) == FlattenChildren(node.children, 1) \o node.configs

flatten_configs(node) == node.configs \o FlattenChildren(node.children, 1)

(***************************************************************************)
(* logic.rs: collect_defaults.                                             *)
(***************************************************************************)
RECURSIVE CollectFrom(_, _, _)
CollectFrom(map, its, k) ==
    IF k > Len(its) THEN map
    ELSE CollectFrom(IF IsSome(its[k].default)
                     THEN MapInsert(map, its[k].name, Unwrap(its[k].default))
                     ELSE map,
                     its, k + 1)

collect_defaults(its) == CollectFrom(<<>>, its, 1)

(***************************************************************************)
(* The item lists handed to ConfigGraph::build.                            *)
(***************************************************************************)
NameA == <<"A">>
NameB == <<"B">>
NameC == <<"C">>
GraphNames == {NameA, NameB, NameC}

\* "A", "B", "C", "B && A", "A && A > 10 || AB"
GraphExprs ==
    { <<"A">>, <<"B">>, <<"C">>,
      <<"B", " ", "&", "&", " ", "A">>,
      <<"A", " ", "&", "&", " ", "A", " ", ">", " ", "1", "0", " ", "|", "|", " ",
        "A", "B">> }

GraphItems ==
    {create_item(n, d) : n \in GraphNames, d \in {None} \cup {Some(e) : e \in GraphExprs}}

SeqsUpTo(S, n) == UNION {[1..k -> S] : k \in 0..n}

NoResult == [kind |-> "none", scc |-> <<>>, graph |-> EmptyGraph]

GraphInit ==
    /\ items \in SeqsUpTo(GraphItems, MaxItems)
    /\ result = NoResult
    /\ app = <<>>
    /\ disk = None
    /\ writable = TRUE
    /\ pc = "check"
    /\ turn = <<>>
    /\ call = <<>>

Build ==
    /\ pc = "check"
    /\ result.kind = "none"
    /\ result' = build(items)
    /\ UNCHANGED <<items, app, disk, writable, pc, turn, call>>

GraphNext == Build

SpecGraph == GraphInit /\ [][GraphNext]_vars

(***************************************************************************)
(* The reference graph of an item list, stated without the graph library:  *)
(* d -> i for each declared name d among the tokens of item i's            *)
(* depends_on.                                                             *)
(***************************************************************************)
RefEdges(its) ==
    {<<d, its[k].name>> : k \in DOMAIN its, d \in ItemNames(its)} \cap
    UNION { {<<d, its[k].name>> :
                d \in IF IsSome(its[k].depends_on)
                      THEN Range(extract_variables(Unwrap(its[k].depends_on)))
                      ELSE {}} : k \in DOMAIN its }

\* the names reachable from the set S in one or more steps of E
RECURSIVE ReachFrom(_, _)
ReachFrom(E, S) ==
    LET T == S \cup {e[2] : e \in {f \in E : f[1] \in S}}
    IN  IF T = S THEN S ELSE ReachFrom(E, T)

Reaches(E, a, b) == b \in ReachFrom(E, {e[2] : e \in {f \in E : f[1] = a}})

\* a self-edge or a cycle through several items
HasRefCycle(its) == \E n \in ItemNames(its) : Reaches(RefEdges(its), n, n)

\* a cycle through two or more items
HasMultiCycle(its) ==
    \E a, b \in ItemNames(its) :
        a # b /\ Reaches(RefEdges(its), a, b) /\ Reaches(RefEdges(its), b, a)

\* the items whose depends_on references their own name
SelfRefNames(its) == {n \in ItemNames(its) : <<n, n>> \in RefEdges(its)}

\* C1: ConfigGraph::build returns an error exactly when the reference graph of
\* the item list has a cycle (through two or more items, or a self-edge), and Ok
\* for every acyclic one.
C1_BuildFailsIffCycle ==
    result.kind # "none" => ((result.kind # "ok") <=> HasRefCycle(items))

\* a two-item cycle without self-edges was built and refused
C1_Witness ==
    /\ result.kind = "Cycle detected"
    /\ SelfRefNames(items) = {}
    /\ Len(items) = 2

\* C2 as stated: whenever some item references its own name, the failure is the
\* self-dependency error and names a self-referencing item.
C2_Original ==
    (result.kind # "none" /\ SelfRefNames(items) # {}) =>
        /\ result.kind = "Self-dependency cycle detected"
        /\ result.scc[1] \in SelfRefNames(items)

\* C2 amended: when some item references its own name the build fails; a
\* self-dependency error always names a self-referencing item, and the error is
\* the self-dependency one whenever the reference graph has no cycle through two
\* or more items (otherwise the first offending component in Tarjan's order
\* decides, and it may be reported as "Cycle detected").
C2_SelfDependencyReported ==
    (result.kind # "none" /\ SelfRefNames(items) # {}) =>
        /\ result.kind \in {"Self-dependency cycle detected", "Cycle detected"}
        /\ result.kind = "Self-dependency cycle detected" =>
               /\ Len(result.scc) = 1
               /\ result.scc[1] \in SelfRefNames(items)
        /\ ~HasMultiCycle(items) => result.kind = "Self-dependency cycle detected"

\* a self-referencing item among other items was reported as a self-dependency
C2_Witness ==
    /\ result.kind = "Self-dependency cycle detected"
    /\ Len(items) >= 2
    /\ result.scc[1] \in SelfRefNames(items)

\* the number of outgoing adjacency entries from a to b
OutCount(g, a, b) ==
    Cardinality({k \in DOMAIN g.adj[a] : g.adj[a][k] = <<b, "Outgoing">>})

\* C3: after a successful build the node set is exactly the set of item names,
\* there is an edge d -> i exactly when d is a declared name among the tokens of
\* i's depends_on, and every such edge is stored once.
C3_GraphIsReferenceGraph ==
    result.kind = "ok" =>
        /\ Range(result.graph.nodes) = ItemNames(items)
        /\ Len(result.graph.nodes) = Cardinality(ItemNames(items))
        /\ result.graph.edges = RefEdges(items)
        /\ \A a, b \in ItemNames(items) :
               OutCount(result.graph, a, b) = IF <<a, b>> \in RefEdges(items) THEN 1 ELSE 0

\* "A && A > 10 || AB" on item B, with A declared: a repeated token, a numeric
\* literal and a word that is no item
C3_Witness ==
    /\ result.kind = "ok"
    /\ \E k \in DOMAIN items :
           /\ items[k].name = NameB
           /\ items[k].depends_on = Some(<<"A", " ", "&", "&", " ", "A", " ", ">", " ",
                                           "1", "0", " ", "|", "|", " ", "A", "B">>)
    /\ NameA \in ItemNames(items)
    /\ <<NameA, NameB>> \in result.graph.edges

(***************************************************************************)
(* Integer parsing and formatting as the editor uses them:                 *)
(* str::parse::<i64>, i64::from_str_radix and i64::to_string.  The drafts  *)
(* of the model are too short to overflow an i64.                          *)
(***************************************************************************)
ParseOk(i) == [ok |-> TRUE, v |-> i]
ParseErr == [ok |-> FALSE, v |-> 0]

from_str_radix(src, radix) ==
    IF src = <<>> THEN ParseErr
    ELSE LET signed == src[1] \in {"+", "-"}
             ds == IF signed THEN Tail(src) ELSE src
         IN  IF ds = <<>> \/ \E k \in DOMAIN ds : DigitVal(ds[k]) >= radix THEN ParseErr
             ELSE IF src[1] = "-" THEN ParseOk(0 - DigitsValue(ds, radix, 0))
             ELSE ParseOk(DigitsValue(ds, radix, 0))

parse_i64(src) == from_str_radix(src, 10)

DigitChar(d) == CharOrder[d + 1]

RECURSIVE NatToString(_)
NatToString(n) ==
    IF n < 10 THEN <<DigitChar(n)>>
    ELSE Append(NatToString(n \div 10), DigitChar(n % 10))

to_string(i) == IF i < 0 THEN <<"-">> \o NatToString(0 - i) ELSE NatToString(i)

starts_with(str, prefix) ==
    Len(str) >= Len(prefix) /\ SubSeq(str, 1, Len(prefix)) = prefix

(***************************************************************************)
(* The toml crate, for a table of booleans, integers and strings.  The     *)
(* document to_string_pretty writes has one line `key = value` for each    *)
(* entry: true or false, the decimal digits of an integer, a string        *)
(* between double quotes with \ before each " and each \.  The order of    *)
(* the lines plays no part in from_str, so a document is the set of its    *)
(* lines.  from_str reads the kind of a value off its text, and refuses a  *)
(* line of another shape and a key that comes twice.                       *)
(***************************************************************************)
RECURSIVE Escape(_, _)
Escape(str, k) ==
    IF k > Len(str) THEN <<>>
    ELSE (IF str[k] \in {"\"", "\\"} THEN <<"\\", str[k]>> ELSE <<str[k]>>)
         \o Escape(str, k + 1)

ValueText(v) ==
    CASE v.t = "Boolean" -> IF v.b THEN <<"t", "r", "u", "e">> ELSE <<"f", "a", "l", "s", "e">>
      [] v.t = "Integer" -> to_string(v.i)
      [] v.t = "String" -> <<"\"">> \o Escape(v.s, 1) \o <<"\"">>

Line(key, text) == key \o <<" ", "=", " ">> \o text

to_string_pretty(table) == {Line(key, ValueText(table[key])) : key \in DOMAIN table}

\* the string between the quotes, or None when a " or a \ stands alone
RECURSIVE Unescape(_, _)
Unescape(text, k) ==
    IF k > Len(text) THEN Some(<<>>)
    ELSE IF text[k] = "\""  THEN None
    ELSE IF text[k] = "\\"
    THEN IF k + 1 <= Len(text) /\ text[k + 1] \in {"\"", "\\"}
         THEN LET Rest(r) == IF IsSome(r) THEN Some(<<text[k + 1]>> \o Unwrap(r)) ELSE None
              IN  Rest(Unescape(text, k + 2))
         ELSE None
    ELSE LET Rest(r) == IF IsSome(r) THEN Some(<<text[k]>> \o Unwrap(r)) ELSE None
         IN  Rest(Unescape(text, k + 1))

\* the value a text stands for, or None
ParseValueText(text) ==
    IF text = <<"t", "r", "u", "e">> THEN Some(VBoolean(TRUE))
    ELSE IF text = <<"f", "a", "l", "s", "e">> THEN Some(VBoolean(FALSE))
    ELSE IF text # <<>> /\ text[1] = "\""
    THEN IF Len(text) >= 2 /\ text[Len(text)] = "\""
         THEN LET Quoted(r) == IF IsSome(r) THEN Some(VString(Unwrap(r))) ELSE None
              IN  Quoted(Unescape(SubSeq(text, 2, Len(text) - 1), 1))
         ELSE None
    ELSE IF parse_i64(text).ok THEN Some(VInteger(parse_i64(text).v))
    ELSE None

\* the length of the bare key a line starts with
RECURSIVE KeyEnd(_, _)
KeyEnd(line, k) ==
    IF k <= Len(line) /\ (is_alphanumeric(line[k]) \/ line[k] \in {"_", "-"})
    THEN KeyEnd(line, k + 1) ELSE k - 1

\* the entry a line stands for, or None
ParseLine(line) ==
    LET Split(n) ==
            IF n >= 1 /\ Len(line) >= n + 3 /\ SubSeq(line, n + 1, n + 3) = <<" ", "=", " ">>
            THEN LET Entry(v) == IF IsSome(v)
                                 THEN Some([key |-> SubSeq(line, 1, n), value |-> Unwrap(v)])
                                 ELSE None
                 IN  Entry(ParseValueText(SubSeq(line, n + 4, Len(line))))
            ELSE None
    IN  Split(KeyEnd(line, 1))

\* Result<Table>
TableOk(table) == [ok |-> TRUE, table |-> table]
TableErr == [ok |-> FALSE, table |-> <<>>]

from_str(content) ==
    IF \E line \in content : ~IsSome(ParseLine(line)) THEN TableErr
    ELSE LET entries == {Unwrap(ParseLine(line)) : line \in content}
         IN  IF \E e1, e2 \in entries : e1.key = e2.key /\ e1 # e2 THEN TableErr
             ELSE TableOk([key \in {e.key : e \in entries} |->
                              (CHOOSE e \in entries : e.key = key).value])

(***************************************************************************)
(* config_io.rs: load_config, save_config.  A config file is None when it  *)
(* does not exist, else its content.                                       *)
(***************************************************************************)
\* items.iter().find(|i| i.name == key)
FindItem(its, key) ==
    LET ks == {k \in DOMAIN its : its[k].name = key}
    IN  IF ks = {} THEN None ELSE Some(its[CHOOSE k \in ks : \A j \in ks : k <= j])

\* a bug: an entry of a declared item is inserted without validation
Accepted_NoValidate(parsed, its) ==
    {key \in DOMAIN parsed : IsSome(FindItem(its, key))}

\* the entries of the parsed table that are inserted
Accepted(parsed, its) ==
    {key \in DOMAIN parsed :
        /\ IsSome(FindItem(its, key))
        /\ validate(Unwrap(FindItem(its, key)), parsed[key])}

\* Result<HashMap<String, Value>>
LoadOk(values) == [ok |-> TRUE, values |-> values]
LoadErr == [ok |-> FALSE, values |-> <<>>]

load_config(file, its) ==
    LET defaults == collect_defaults(its)
        Overlay(parsed) ==
            IF parsed.ok
            THEN LoadOk([key \in DOMAIN defaults \cup Accepted(parsed.table, its) |->
                            IF key \in Accepted(parsed.table, its)
                            THEN parsed.table[key] ELSE defaults[key]])
            ELSE LoadErr
    IN  IF IsSome(file) THEN Overlay(from_str(Unwrap(file))) ELSE LoadOk(defaults)

\* the file save_config leaves at the path: the text of every entry of the map
save_config(values) == Some(to_string_pretty(values))

\* a bug: an entry equal to its default is emitted too
get_minimal_config_KeepsAll(current_values, its) == current_values

\* a bug: an entry of an item without a default is left out
get_minimal_config_DefaultedOnly(current_values, its) ==
    LET Minimal(defaults) ==
            [name \in {n \in DOMAIN current_values :
                           n \in DOMAIN defaults /\ current_values[n] # defaults[n]}
                |-> current_values[name]]
    IN  Minimal(collect_defaults(its))

get_minimal_config(current_values, its) ==
    LET Minimal(defaults) ==
            [name \in {n \in DOMAIN current_values :
                           IF n \in DOMAIN defaults THEN current_values[n] # defaults[n]
                           ELSE TRUE}
                |-> current_values[name]]
    IN  Minimal(collect_defaults(its))

(***************************************************************************)
(* tui/mod.rs: App.  The navigation path and the cursors count from 0 as   *)
(* in the program; root is the index of the schema tree the editor owns.   *)
(***************************************************************************)
Editor(config, input, choice_state) ==
    [config |-> config, input |-> input, choice_state |-> choice_state]

\* the node reached from node by the child indices path[k..]
RECURSIVE Descend(_, _, _)
Descend(node, path, k) ==
    IF k > Len(path) THEN node ELSE Descend(node.children[path[k] + 1], path, k + 1)

RECURSIVE SetVariables(_, _, _)
SetVariables(ctx, values, names) ==
    IF names = {} THEN ctx
    ELSE LET n == CHOOSE x \in names : TRUE
         IN  SetVariables(set_variable(ctx, n, values[n]), values, names \ {n})

update_evaluator(a) ==
    [a EXCEPT !.evaluator = SetVariables(@, a.values, DOMAIN a.values)]

\* App::new, given the tree and the config file found at config_path
AppNew(root, tree, file) ==
    LET values == load_config(file, flatten_configs(tree)).values
    IN  [root |-> root,
         values |-> values,
         is_dirty |-> FALSE,
         evaluator |-> SetVariables(NewEvaluator, values, DOMAIN values),
         current_node_path |-> <<>>,
         list_state |-> Some(0),
         notification |-> None,
         show_quit_confirm |-> FALSE,
         editor |-> None]

(***************************************************************************)
(* The schema trees the editor is started on.                              *)
(***************************************************************************)
NameD == <<"D">>
NameG == <<"G">>
NameH == <<"H">>
NameM == <<"M">>
NameN == <<"N">>
NameP == <<"P">>
NameS == <<"S">>
NameT == <<"T">>

OptLo == <<"l", "o">>
OptHi == <<"h", "i">>

\* A; B depends_on "A"; menu net depends_on "B" with N (no default)
\* depends_on "X", a name that is never bound; menu fs depends_on "A &&", a
\* malformed expression, with nothing in it
DepsTree ==
    ConfigNode("Root",
        << ConfigItem(NameA, "Bool", Some(VBoolean(FALSE)), None, None, None, None),
           ConfigItem(NameB, "Bool", Some(VBoolean(FALSE)), Some(<<"A">>), None, None, None) >>,
        << ConfigNode("net",
               << ConfigItem(NameN, "Bool", None, Some(<<"X">>), None, None, None) >>,
               <<>>, "net", Some(<<"B">>)),
           ConfigNode("fs", <<>>, <<>>, "fs", Some(<<"A", " ", "&", "&">>)) >>,
        "", None)

\* P: an Int in 1..10; G depends_on "P > 5"
IntTree ==
    ConfigNode("Root",
        << ConfigItem(NameP, "Int", Some(VInteger(1)), None, None, Some(<<1, 10>>), None),
           ConfigItem(NameG, "Bool", Some(VBoolean(FALSE)),
                      Some(<<"P", " ", ">", " ", "5">>), None, None, None) >>,
        <<>>, "", None)

\* H: a Hex without a range
HexTree ==
    ConfigNode("Root",
        << ConfigItem(NameH, "Hex", Some(VInteger(0)), None, None, None, None) >>,
        <<>>, "", None)

\* S: a String that must match ^[a-z]+$
StringTree ==
    ConfigNode("Root",
        << ConfigItem(NameS, "String", Some(VString(<<"x">>)), None, None, None,
                      Some(<<"^", "[", "a", "-", "z", "]", "+", "$">>)) >>,
        <<>>, "", None)

\* M: a Choice of lo and hi; T: a Bool whose declared default is the integer 0;
\* D depends_on "T"
ChoiceTree ==
    ConfigNode("Root",
        << ConfigItem(NameM, "Choice", Some(VString(OptLo)), None,
                      Some(<<OptLo, OptHi>>), None, None),
           ConfigItem(NameT, "Bool", Some(VInteger(0)), None, None, None, None),
           ConfigItem(NameD, "Bool", Some(VBoolean(FALSE)), Some(<<"T">>), None, None, None) >>,
        <<>>, "", None)

NameE == <<"E">>
NameK == <<"K">>
NameQ == <<"Q">>

\* schema mistakes that only `check` refuses: E, a Choice with an empty list of
\* options; K, a Choice whose declared default is the integer 0; Q, an Int
\* whose declared default is the string "1"; and a menu inside a menu
OddTree ==
    ConfigNode("Root",
        << ConfigItem(NameE, "Choice", None, None, Some(<<>>), None, None),
           ConfigItem(NameK, "Choice", Some(VInteger(0)), None,
                      Some(<<OptLo, OptHi>>), None, None),
           ConfigItem(NameQ, "Int", Some(VString(<<"1">>)), None, None, None, None) >>,
        << ConfigNode("outer", <<>>,
               << ConfigNode("inner", <<>>, <<>>, "outer/inner", None) >>,
               "outer", None) >>,
        "", None)

NameF == <<"F">>
NameW == <<"W">>

\* menu m depends_on "F" and holds W, which depends_on "F", and then F itself
NavTree ==
    ConfigNode("Root", <<>>,
        << ConfigNode("m",
               << ConfigItem(NameW, "Bool", Some(VBoolean(FALSE)), Some(<<"F">>),
                             None, None, None),
                  ConfigItem(NameF, "Bool", Some(VBoolean(TRUE)), None, None, None, None) >>,
               <<>>, "m", Some(<<"F">>)) >>,
        "", None)

Schemas == <<DepsTree, IntTree, HexTree, StringTree, ChoiceTree, OddTree, NavTree>>

\* a config file for DepsTree: a valid entry, an entry of the wrong type and an
\* entry that is no item
DepsFile ==
    { Line(NameA, <<"t", "r", "u", "e">>), Line(NameN, <<"3">>),
      Line(<<"Z">>, <<"t", "r", "u", "e">>) }

\* the config files the editor may find at config_path
InitialFiles(root) == IF root = 1 THEN {None, Some(DepsFile)} ELSE {None}

root_node(a) == Schemas[a.root]

flattened_items(a) == flatten_configs(root_node(a))

(***************************************************************************)
(* tui/mod.rs: navigation and visibility.                                  *)
(***************************************************************************)
get_current_node(a) == Descend(root_node(a), a.current_node_path, 1)

is_visible_config(a, config) ==
    IF IsSome(config.depends_on)
    THEN unwrap_or(check_dependency(a.evaluator, Unwrap(config.depends_on)), TRUE)
    ELSE TRUE

is_visible_node(a, node) ==
    IF IsSome(node.depends_on)
    THEN unwrap_or(check_dependency(a.evaluator, Unwrap(node.depends_on)), TRUE)
    ELSE TRUE

\* tui/state.rs: AppState::new
AppState_new(its, values) ==
    [items |-> its, values |-> values,
     evaluator |-> SetVariables(NewEvaluator, values, DOMAIN values)]

\* tui/state.rs: AppState::is_visible
AppState_is_visible(state, item) ==
    IF IsSome(item.depends_on)
    THEN unwrap_or(check_dependency(state.evaluator, Unwrap(item.depends_on)), FALSE)
    ELSE TRUE

\* the visible items, and the visible child nodes as their indices among the
\* children of the current node (the references the program holds)
get_visible_items(a) ==
    LET Visible(node) ==
            LET VisibleConfig(c) == is_visible_config(a, c)
                VisibleChild(k) == is_visible_node(a, node.children[k + 1])
            IN  [configs  |-> SelectSeq(node.configs, VisibleConfig),
                 children |-> SelectSeq([k \in 1..Len(node.children) |-> k - 1],
                                        VisibleChild)]
    IN  Visible(get_current_node(a))

VisibleTotal(a) ==
    LET Total(vis) == Len(vis.configs) + Len(vis.children)
    IN  Total(get_visible_items(a))

\* a bug: the cursor stops at the last entry
next_NoWrap(a) ==
    LET Step(total) ==
            IF total = 0 THEN a
            ELSE [a EXCEPT !.list_state =
                     IF IsSome(@)
                     THEN (IF Unwrap(@) >= total - 1 THEN @ ELSE Some(Unwrap(@) + 1))
                     ELSE Some(0)]
    IN  Step(VisibleTotal(a))

next(a) ==
    LET Step(total) ==
            IF total = 0 THEN a
            ELSE [a EXCEPT !.list_state =
                     IF IsSome(@)
                     THEN (IF Unwrap(@) >= total - 1 THEN Some(0) ELSE Some(Unwrap(@) + 1))
                     ELSE Some(0)]
    IN  Step(VisibleTotal(a))

previous(a) ==
    LET Step(total) ==
            IF total = 0 THEN a
            ELSE [a EXCEPT !.list_state =
                     IF IsSome(@)
                     THEN (IF Unwrap(@) = 0 THEN Some(total - 1) ELSE Some(Unwrap(@) - 1))
                     ELSE Some(0)]
    IN  Step(VisibleTotal(a))

Selected(a) == IF IsSome(a.list_state) THEN Unwrap(a.list_state) ELSE 0

\* a bug: the index among the visible children goes on the path
enter_VisibleIndex(a) ==
    LET Into(selected, vis) ==
            LET child_index_in_visible == selected - Len(vis.configs)
            IN  IF selected >= Len(vis.configs) /\ child_index_in_visible < Len(vis.children)
                THEN [a EXCEPT !.current_node_path = Append(@, child_index_in_visible),
                               !.list_state = Some(0)]
                ELSE a
    IN  Into(Selected(a), get_visible_items(a))

enter(a) ==
    LET Into(selected, vis) ==
            LET child_index_in_visible == selected - Len(vis.configs)
            IN  IF selected >= Len(vis.configs) /\ child_index_in_visible < Len(vis.children)
                THEN [a EXCEPT !.current_node_path =
                                   Append(@, vis.children[child_index_in_visible + 1]),
                               !.list_state = Some(0)]
                ELSE a
    IN  Into(Selected(a), get_visible_items(a))

\* a bug: back returns to the root node
back_ToRoot(a) ==
    IF a.current_node_path # <<>>
    THEN [a EXCEPT !.current_node_path = <<>>, !.list_state = Some(0)]
    ELSE a

back(a) ==
    IF a.current_node_path # <<>>
    THEN [a EXCEPT !.current_node_path = SubSeq(@, 1, Len(@) - 1), !.list_state = Some(0)]
    ELSE a

(***************************************************************************)
(* tui/mod.rs: editing.                                                    *)
(***************************************************************************)
notify(a, message) == [a EXCEPT !.notification = Some(message)]

clear_notification(a) == [a EXCEPT !.notification = None]

\* a bug: the edit session starts with an empty draft
Prefill_Empty(a, config) == <<>>

\* the draft an Int, Hex or String edit session starts with
Prefill(a, config) ==
    IF config.name \in DOMAIN a.values
    THEN LET v == a.values[config.name]
         IN  IF v.t = "Integer" THEN to_string(v.i)
             ELSE IF v.t = "String" THEN v.s
             ELSE <<>>
    ELSE <<>>

toggle_bool(a) ==
    LET On(config) ==
            CASE config.config_type = "Bool" ->
                    LET current_val ==
                            IF config.name \in DOMAIN a.values
                               /\ a.values[config.name].t = "Boolean"
                            THEN a.values[config.name].b ELSE FALSE
                    IN  update_evaluator(
                            [a EXCEPT !.values = MapInsert(@, config.name,
                                                           VBoolean(~current_val)),
                                      !.is_dirty = TRUE])
              [] config.config_type \in {"Int", "Hex", "String"} ->
                    [a EXCEPT !.editor = Some(Editor(config, Prefill(a, config), None))]
              [] config.config_type = "Choice" ->
                    [a EXCEPT !.editor = Some(Editor(config, <<>>, Some(0)))]
        Toggle(selected, visible_configs) ==
            IF selected < Len(visible_configs) THEN On(visible_configs[selected + 1]) ELSE a
    IN  Toggle(Selected(a), get_visible_items(a).configs)

submit_choice(a) ==
    IF IsSome(a.editor)
    THEN LET editor == Unwrap(a.editor)
             config == editor.config
             taken == [a EXCEPT !.editor = None]
         IN  IF /\ IsSome(config.options)
                /\ IsSome(editor.choice_state)
                /\ Unwrap(editor.choice_state) < Len(Unwrap(config.options))
             THEN LET opt == Unwrap(config.options)[Unwrap(editor.choice_state) + 1]
                  IN  notify(update_evaluator(
                                 [taken EXCEPT !.values = MapInsert(@, config.name, VString(opt)),
                                               !.is_dirty = TRUE]),
                             "Selected")
             ELSE taken
    ELSE a

\* usize::MAX, as far as a cursor is compared with it
UsizeMax == 2147483647

\* a - b in usize, for b <= UsizeMax: the wrapped difference (a build with
\* overflow checks panics where a < b instead)
usize_sub(a, b) == IF a >= b THEN a - b ELSE UsizeMax - (b - a) + 1

next_choice(a) ==
    IF IsSome(a.editor) /\ IsSome(Unwrap(a.editor).config.options)
    THEN LET editor == Unwrap(a.editor)
             options == Unwrap(editor.config.options)
             i == IF IsSome(editor.choice_state)
                  THEN (IF Unwrap(editor.choice_state) >= usize_sub(Len(options), 1) THEN 0
                        ELSE Unwrap(editor.choice_state) + 1)
                  ELSE 0
         IN  [a EXCEPT !.editor = Some([editor EXCEPT !.choice_state = Some(i)])]
    ELSE a

previous_choice(a) ==
    IF IsSome(a.editor) /\ IsSome(Unwrap(a.editor).config.options)
    THEN LET editor == Unwrap(a.editor)
             options == Unwrap(editor.config.options)
             i == IF IsSome(editor.choice_state)
                  THEN (IF Unwrap(editor.choice_state) = 0 THEN usize_sub(Len(options), 1)
                        ELSE Unwrap(editor.choice_state) - 1)
                  ELSE 0
         IN  [a EXCEPT !.editor = Some([editor EXCEPT !.choice_state = Some(i)])]
    ELSE a

\* the value the draft parses to for the type of the item, and the
\* notification of a failed parse
ParseDraft(config, input) ==
    CASE config.config_type = "Int" ->
            LET r == parse_i64(input)
            IN  IF r.ok THEN [value |-> Some(VInteger(r.v)), message |-> None]
                ELSE [value |-> None, message |-> Some("Invalid integer")]
      [] config.config_type = "Hex" ->
            LET r == IF starts_with(input, <<"0", "x">>) \/ starts_with(input, <<"0", "X">>)
                     THEN from_str_radix(SubSeq(input, 3, Len(input)), 16)
                     ELSE from_str_radix(input, 16)
            IN  IF r.ok THEN [value |-> Some(VInteger(r.v)), message |-> None]
                ELSE [value |-> None, message |-> Some("Invalid hex value")]
      [] config.config_type = "String" -> [value |-> Some(VString(input)), message |-> None]
      [] OTHER -> [value |-> None, message |-> None]

\* a bug: a draft that does not parse is committed as 0
submit_input_CommitsOnError(a) ==
    IF IsSome(a.editor)
    THEN LET editor == Unwrap(a.editor)
             parsed == ParseDraft(editor.config, editor.input)
             taken == [a EXCEPT !.editor = None]
             val == IF IsSome(parsed.value) THEN Unwrap(parsed.value) ELSE VInteger(0)
         IN  notify(update_evaluator(
                        [taken EXCEPT !.values = MapInsert(@, editor.config.name, val),
                                      !.is_dirty = TRUE]),
                    "Value updated")
    ELSE a

submit_input(a) ==
    IF IsSome(a.editor)
    THEN LET editor == Unwrap(a.editor)
             parsed == ParseDraft(editor.config, editor.input)
             taken == [a EXCEPT !.editor = None]
             failed == IF IsSome(parsed.message) THEN notify(taken, Unwrap(parsed.message))
                       ELSE taken
         IN  IF IsSome(parsed.value)
             THEN notify(update_evaluator(
                             [failed EXCEPT !.values = MapInsert(@, editor.config.name,
                                                                 Unwrap(parsed.value)),
                                            !.is_dirty = TRUE]),
                         "Value updated")
             ELSE failed
    ELSE a

\* a bug: cancelling also sends the cursor back to the top
cancel_input_ResetsCursor(a) == [a EXCEPT !.editor = None, !.list_state = Some(0)]

cancel_input(a) == [a EXCEPT !.editor = None]

\* the outcome of a handler that may write the config file and end the loop
Outcome(a, d, exit) == [app |-> a, disk |-> d, exit |-> exit]

\* `let _ = self.save()`: the Result of save is dropped
Saved(r, exit) == Outcome(r.app, r.disk, exit)

\* App::save: on a failed write the error is returned before anything else is done
\* a bug: the dirty flag is cleared although the write failed
save_ClearsOnError(a, d, w) ==
    IF w
    THEN [app |-> notify([a EXCEPT !.is_dirty = FALSE], "Config saved"),
          disk |-> save_config(a.values), ok |-> TRUE]
    ELSE [app |-> [a EXCEPT !.is_dirty = FALSE], disk |-> d, ok |-> FALSE]

save(a, d, w) ==
    IF w
    THEN [app |-> notify([a EXCEPT !.is_dirty = FALSE], "Config saved"),
          disk |-> save_config(a.values), ok |-> TRUE]
    ELSE [app |-> a, disk |-> d, ok |-> FALSE]

(***************************************************************************)
(* crossterm events: a key with its KeyCode, or an event that is no key.   *)
(***************************************************************************)
Char(c) == [code |-> "Char", c |-> c]
Key(code) == [code |-> code, c |-> ""]
IsChar(k, cs) == k.code = "Char" /\ k.c \in cs

handle_quit_confirm(a, d, w, k) ==
    IF IsChar(k, {"y", "Y"}) THEN Saved(save(a, d, w), TRUE)
    ELSE IF IsChar(k, {"n", "N"}) THEN Outcome(a, d, TRUE)
    ELSE IF k.code = "Esc" THEN Outcome([a EXCEPT !.show_quit_confirm = FALSE], d, FALSE)
    ELSE Outcome(a, d, FALSE)

IsChoiceEditor(a) ==
    IsSome(a.editor) /\ Unwrap(a.editor).config.config_type = "Choice"

handle_editing_key(a, k) ==
    IF IsChoiceEditor(a)
    THEN CASE k.code = "Enter" -> submit_choice(a)
           [] k.code = "Esc" -> cancel_input(a)
           [] k.code = "Down" \/ IsChar(k, {"j"}) -> next_choice(a)
           [] k.code = "Up" \/ IsChar(k, {"k"}) -> previous_choice(a)
           [] OTHER -> a
    ELSE CASE k.code = "Enter" -> submit_input(a)
           [] k.code = "Esc" -> cancel_input(a)
           [] k.code = "Backspace" ->
                IF IsSome(a.editor)
                THEN [a EXCEPT !.editor = Some([Unwrap(@) EXCEPT !.input =
                                 IF @ = <<>> THEN @ ELSE SubSeq(@, 1, Len(@) - 1)])]
                ELSE a
           [] k.code = "Char" ->
                IF IsSome(a.editor)
                THEN [a EXCEPT !.editor = Some([Unwrap(@) EXCEPT !.input = Append(@, k.c)])]
                ELSE a
           [] OTHER -> a

\* a bug: q leaves at once, unsaved changes or not
handle_main_key_QuitAlways(a, d, w, k) ==
    CASE IsChar(k, {"q"}) -> Outcome(a, d, TRUE)
      [] k.code = "Down" \/ IsChar(k, {"j"}) -> Outcome(next(a), d, FALSE)
      [] k.code = "Up" \/ IsChar(k, {"k"}) -> Outcome(previous(a), d, FALSE)
      [] k.code \in {"Enter", "Right"} \/ IsChar(k, {"l"}) -> Outcome(enter(a), d, FALSE)
      [] k.code \in {"Esc", "Left"} \/ IsChar(k, {"h"}) -> Outcome(back(a), d, FALSE)
      [] IsChar(k, {" ", "y", "i"}) -> Outcome(toggle_bool(a), d, FALSE)
      [] IsChar(k, {"s"}) -> Saved(save(a, d, w), FALSE)
      [] OTHER -> Outcome(a, d, FALSE)

\* a bug: q asks for the confirmation even when nothing is unsaved
handle_main_key_ConfirmsAlways(a, d, w, k) ==
    CASE IsChar(k, {"q"}) -> Outcome([a EXCEPT !.show_quit_confirm = TRUE], d, FALSE)
      [] k.code = "Down" \/ IsChar(k, {"j"}) -> Outcome(next(a), d, FALSE)
      [] k.code = "Up" \/ IsChar(k, {"k"}) -> Outcome(previous(a), d, FALSE)
      [] k.code \in {"Enter", "Right"} \/ IsChar(k, {"l"}) -> Outcome(enter(a), d, FALSE)
      [] k.code \in {"Esc", "Left"} \/ IsChar(k, {"h"}) -> Outcome(back(a), d, FALSE)
      [] IsChar(k, {" ", "y", "i"}) -> Outcome(toggle_bool(a), d, FALSE)
      [] IsChar(k, {"s"}) -> Saved(save(a, d, w), FALSE)
      [] OTHER -> Outcome(a, d, FALSE)

handle_main_key(a, d, w, k) ==
    CASE IsChar(k, {"q"}) ->
            IF a.is_dirty THEN Outcome([a EXCEPT !.show_quit_confirm = TRUE], d, FALSE)
            ELSE Outcome(a, d, TRUE)
      [] k.code = "Down" \/ IsChar(k, {"j"}) -> Outcome(next(a), d, FALSE)
      [] k.code = "Up" \/ IsChar(k, {"k"}) -> Outcome(previous(a), d, FALSE)
      [] k.code \in {"Enter", "Right"} \/ IsChar(k, {"l"}) -> Outcome(enter(a), d, FALSE)
      [] k.code \in {"Esc", "Left"} \/ IsChar(k, {"h"}) -> Outcome(back(a), d, FALSE)
      [] IsChar(k, {" ", "y", "i"}) -> Outcome(toggle_bool(a), d, FALSE)
      [] IsChar(k, {"s"}) -> Saved(save(a, d, w), FALSE)
      [] OTHER -> Outcome(a, d, FALSE)

\* a bug: the key that closes the notification is also dispatched
handle_key_event_FallsThrough(a, d, w, k) ==
    LET b == clear_notification(a)
    IN  IF b.show_quit_confirm THEN handle_quit_confirm(b, d, w, k)
        ELSE IF IsSome(b.editor) THEN Outcome(handle_editing_key(b, k), d, FALSE)
        ELSE handle_main_key(b, d, w, k)

handle_key_event(a, d, w, k) ==
    IF IsSome(a.notification) THEN Outcome(clear_notification(a), d, FALSE)
    ELSE IF a.show_quit_confirm THEN handle_quit_confirm(a, d, w, k)
    ELSE IF IsSome(a.editor) THEN Outcome(handle_editing_key(a, k), d, FALSE)
    ELSE handle_main_key(a, d, w, k)

handle_event(a, d, w, ev) ==
    IF ev.code = "Resize" THEN Outcome(a, d, FALSE) ELSE handle_key_event(a, d, w, ev)

(***************************************************************************)
(* tui/ui.rs: draw.  Rendering a list through render_stateful_widget       *)
(* brings the selection of its ListState back into the list: None when the *)
(* list is empty, the last entry when the selection is past the end.       *)
(***************************************************************************)
RenderList(state, len) ==
    IF len = 0 THEN None
    ELSE IF IsSome(state) /\ Unwrap(state) >= len THEN Some(len - 1)
    ELSE state

\* a bug: the list is rendered without bringing the selection back into it
draw_main_NoClamp(a) == a

draw_main(a) == [a EXCEPT !.list_state = RenderList(@, VisibleTotal(a))]

draw_choice_popup(a) ==
    IF IsSome(a.editor)
    THEN LET editor == Unwrap(a.editor)
             options == IF IsSome(editor.config.options)
                        THEN Unwrap(editor.config.options) ELSE <<>>
         IN  [a EXCEPT !.editor =
                 Some([editor EXCEPT !.choice_state = RenderList(@, Len(options))])]
    ELSE a

draw(a) ==
    IF IsChoiceEditor(a) THEN draw_choice_popup(draw_main(a)) ELSE draw_main(a)

(***************************************************************************)
(* The events the terminal delivers.  While a draft is being typed the     *)
(* model offers the characters of TypeChars, keeps the draft within        *)
(* MaxInput (MaxText for a String) and commits integers up to MaxValue.    *)
(***************************************************************************)
TypeChars == {"1", "x"}

CharKeys == {"q", "j", "k", "l", "h", " ", "y", "i", "s", "n", "Y", "N"} \cup TypeChars

Events ==
    {Char(c) : c \in CharKeys}
    \cup {Key(code) : code \in {"Enter", "Esc", "Down", "Up", "Left", "Right",
                                "Backspace", "Tab"}}
    \cup {Key("Resize")}

Browsing(a) == ~IsSome(a.notification) /\ ~a.show_quit_confirm /\ ~IsSome(a.editor)
EditingText(a) ==
    ~IsSome(a.notification) /\ ~a.show_quit_confirm /\ IsSome(a.editor) /\ ~IsChoiceEditor(a)
EditingChoice(a) ==
    ~IsSome(a.notification) /\ ~a.show_quit_confirm /\ IsChoiceEditor(a)
QuitConfirm(a) == ~IsSome(a.notification) /\ a.show_quit_confirm
Notification(a) == IsSome(a.notification)

Abs(i) == IF i < 0 THEN 0 - i ELSE i

InBounds(a, ev) ==
    EditingText(a) =>
        /\ ev.code = "Char" =>
               /\ ev.c \in TypeChars
               /\ Len(Unwrap(a.editor).input) <
                      IF Unwrap(a.editor).config.config_type = "String" THEN MaxText
                      ELSE MaxInput
        /\ ev.code = "Enter" =>
               LET parsed == ParseDraft(Unwrap(a.editor).config, Unwrap(a.editor).input)
               IN  (IsSome(parsed.value) /\ Unwrap(parsed.value).t = "Integer")
                       => Abs(Unwrap(parsed.value).i) <= MaxValue

(***************************************************************************)
(* tui/mod.rs: run and run_app.                                            *)
(***************************************************************************)
\* no event has been handled since the last draw
Idle(a, d) == [app |-> a, disk |-> d, event |-> Key("None")]

Init ==
    /\ items = <<>>
    /\ result = NoResult
    /\ \E root \in DOMAIN Schemas :
           /\ disk \in InitialFiles(root)
           /\ load_config(disk, flatten_configs(Schemas[root])).ok
           /\ app = AppNew(root, Schemas[root], disk)
    /\ writable \in BOOLEAN
    /\ pc = "draw"
    /\ turn = Idle(app, disk)
    /\ call = <<>>

Draw ==
    /\ pc = "draw"
    /\ app' = draw(app)
    /\ pc' = "event"
    /\ turn' = Idle(app', disk)
    /\ UNCHANGED <<items, result, disk, writable, call>>

\* one turn of the loop after the draw: event::read delivers ev, handle_event
\* dispatches it, and run_app returns when handle_event answers true
HandleEvent(ev) ==
    /\ pc = "event"
    /\ InBounds(app, ev)
    /\ LET Turn(r) == /\ app' = r.app
                       /\ disk' = r.disk
                       /\ pc' = IF r.exit THEN "done" ELSE "draw"
       IN  Turn(handle_event(app, disk, writable, ev))
    /\ turn' = [app |-> app, disk |-> disk, event |-> ev]
    /\ UNCHANGED <<items, result, writable, call>>

Next == Draw \/ \E ev \in Events : HandleEvent(ev)

Spec == Init /\ [][Next]_vars

(***************************************************************************)
(* Visibility and the evaluator context.                                   *)
(***************************************************************************)
\* the node and every node below it
RECURSIVE Nodes(_)
Nodes(node) == {node} \cup UNION {Nodes(node.children[k]) : k \in DOMAIN node.children}

\* the depends_on expression is there and its evaluation is an error
EvalFails(evaluator, depends_on) ==
    IsSome(depends_on) /\ ~check_dependency(evaluator, Unwrap(depends_on)).ok

\* C4: every visibility check of the editor (App::is_visible_config,
\* App::is_visible_node, AppState::is_visible) answers true for an item or a
\* child node whose depends_on expression cannot be evaluated.
C4_VisibilityFailsOpen ==
    /\ \A c \in Range(flattened_items(app)) :
           EvalFails(app.evaluator, c.depends_on) => is_visible_config(app, c)
    /\ \A node \in Nodes(root_node(app)) :
           EvalFails(app.evaluator, node.depends_on) => is_visible_node(app, node)
    /\ LET Check(state) ==
               \A c \in Range(state.items) :
                   EvalFails(state.evaluator, c.depends_on) => AppState_is_visible(state, c)
       IN  Check(AppState_new(flattened_items(app), app.values))

\* an event has just been handled: the state handle_event left
Handled(ev) == pc \in {"draw", "done"} /\ turn.event = ev

\* the context binds every key of the value store to its current value
Synced(a) ==
    \A n \in DOMAIN a.values : n \in DOMAIN a.evaluator /\ a.evaluator[n] = a.values[n]

\* C5: after an event that changed the value store the evaluator context binds
\* every key of the store to its current value, and an item whose depends_on is
\* just the name of a boolean that changed is visible exactly when that boolean
\* is true.
C5_ContextResynced ==
    (pc = "draw" /\ turn.event.code # "None" /\ app.values # turn.app.values) =>
        /\ Synced(app)
        /\ \A c \in Range(flattened_items(app)), n \in DOMAIN app.values :
               ( /\ c.depends_on = Some(n)
                 /\ app.values[n].t = "Boolean"
                 /\ (n \in DOMAIN turn.app.values => turn.app.values[n] # app.values[n]) )
               => (is_visible_config(app, c) <=> app.values[n].b)

(***************************************************************************)
(* Save, quit and the notification.                                        *)
(***************************************************************************)
\* C6: the save key in Browsing, Editing-Text or Editing-Choice writes the whole
\* value store to the config file when the write succeeds, clears the dirty flag
\* and opens a notification, whether the write succeeded or failed.
C6_SaveWritesAndReports ==
    (Handled(Char("s")) /\ ~Notification(turn.app) /\ ~QuitConfirm(turn.app)) =>
        /\ writable => (IsSome(disk) /\ from_str(Unwrap(disk)) = TableOk(turn.app.values))
        /\ ~app.is_dirty
        /\ Notification(app)

\* C7: q in Browsing ends the loop when the dirty flag is clear; when it is set
\* the loop goes on and the quit confirmation is showing.
C7_QuitFromBrowsing ==
    (Handled(Char("q")) /\ Browsing(turn.app)) =>
        IF turn.app.is_dirty THEN pc = "draw" /\ QuitConfirm(app) ELSE pc = "done"

\* q was pressed in Browsing with unsaved changes
C7_Witness ==
    /\ Handled(Char("q"))
    /\ Browsing(turn.app)
    /\ turn.app.is_dirty
    /\ QuitConfirm(app)

\* C8: in QuitConfirm, y leaves the value store in the config file and ends the
\* loop; n ends the loop with the file untouched; Esc returns to Browsing with
\* values, dirty flag, cursor and path as they were; any other event changes
\* nothing.
C8_QuitConfirmKeys ==
    (pc \in {"draw", "done"} /\ turn.event.code # "None" /\ QuitConfirm(turn.app)) =>
        IF IsChar(turn.event, {"y", "Y"})
        THEN pc = "done" /\ IsSome(disk) /\ from_str(Unwrap(disk)) = TableOk(turn.app.values)
        ELSE IF IsChar(turn.event, {"n", "N"})
        THEN pc = "done" /\ disk = turn.disk
        ELSE IF turn.event.code = "Esc"
        THEN /\ pc = "draw"
             /\ Browsing(app)
             /\ app.values = turn.app.values
             /\ app.is_dirty = turn.app.is_dirty
             /\ app.list_state = turn.app.list_state
             /\ app.current_node_path = turn.app.current_node_path
             /\ disk = turn.disk
        ELSE pc = "draw" /\ app = turn.app /\ disk = turn.disk

\* C9: with a notification showing, a key event only removes the notification:
\* the loop goes on and everything else of the App, and the file, is as it was;
\* an event that is no key leaves the notification showing.
C9_NotificationAbsorbsKey ==
    (pc \in {"draw", "done"} /\ turn.event.code # "None" /\ Notification(turn.app)) =>
        /\ pc = "draw"
        /\ disk = turn.disk
        /\ app = [turn.app EXCEPT !.notification =
                                      IF turn.event.code = "Resize" THEN @ ELSE None]

\* q was pressed on a notification that covered unsaved changes
C9_Witness ==
    /\ Handled(Char("q"))
    /\ Notification(turn.app)
    /\ turn.app.is_dirty
    /\ Browsing(app)

\* the draft of an Int or Hex edit session does not parse
DraftFails(editor) ==
    /\ editor.config.config_type \in {"Int", "Hex"}
    /\ ~IsSome(ParseDraft(editor.config, editor.input).value)

\* C10: Enter in Editing-Text on an Int or Hex draft that does not parse opens a
\* notification and ends the edit session; the value store, the evaluator
\* context, the dirty flag and the file are as they were and the loop goes on.
C10_FailedParseCommitsNothing ==
    ( /\ Handled(Key("Enter"))
      /\ EditingText(turn.app)
      /\ DraftFails(Unwrap(turn.app.editor)) ) =>
        /\ pc = "draw"
        /\ Notification(app)
        /\ app.editor = None
        /\ app.values = turn.app.values
        /\ app.evaluator = turn.app.evaluator
        /\ app.is_dirty = turn.app.is_dirty
        /\ disk = turn.disk

\* the draft "1x" of an Int was confirmed over unsaved changes
C10_Witness ==
    /\ Handled(Key("Enter"))
    /\ EditingText(turn.app)
    /\ Unwrap(turn.app.editor).config.config_type = "Int"
    /\ Unwrap(turn.app.editor).input = <<"1", "x">>
    /\ turn.app.is_dirty
    /\ Notification(app)

(***************************************************************************)
(* Edit sessions.                                                          *)
(***************************************************************************)
\* the digits of a Hex draft: what follows a leading 0x or 0X, else the draft
HexDigits(input) ==
    IF starts_with(input, <<"0", "x">>) \/ starts_with(input, <<"0", "X">>)
    THEN SubSeq(input, 3, Len(input)) ELSE input

\* the value a draft stands for, for the type of the target item
DraftValue(editor) ==
    CASE editor.config.config_type = "Int" -> VInteger(parse_i64(editor.input).v)
      [] editor.config.config_type = "Hex" ->
            VInteger(from_str_radix(HexDigits(editor.input), 16).v)
      [] OTHER -> VString(editor.input)

DraftParses(editor) ==
    CASE editor.config.config_type = "Int" -> parse_i64(editor.input).ok
      [] editor.config.config_type = "Hex" -> from_str_radix(HexDigits(editor.input), 16).ok
      [] OTHER -> editor.config.config_type = "String"

\* C11: Enter in Editing-Text on a draft that parses stores exactly the parsed
\* value for the target item (base 10 for Int, base 16 after an optional 0x or
\* 0X for Hex, the draft itself for String) and nothing else, sets the dirty
\* flag, leaves the evaluator context binding every key of the store to its
\* value, and the editor is in Browsing.
C11_ParsedDraftCommitted ==
    ( /\ Handled(Key("Enter"))
      /\ EditingText(turn.app)
      /\ DraftParses(Unwrap(turn.app.editor)) ) =>
        /\ app.values = MapInsert(turn.app.values, Unwrap(turn.app.editor).config.name,
                                  DraftValue(Unwrap(turn.app.editor)))
        /\ app.is_dirty
        /\ Synced(app)
        /\ Browsing(app)

\* what an edit session must leave alone
Frame(a, d) == <<a.values, a.evaluator, a.is_dirty, a.list_state, a.current_node_path, d>>

\* C12: while an edit session is open, no step of the loop other than the
\* handling of Enter (a draw, a typed or deleted character, a move of the
\* option cursor, Esc) changes the value store, the evaluator context, the
\* dirty flag, the cursor, the navigation path or the file; and Esc ends the
\* session in Browsing.  So a cancelled session leaves them as they were when
\* it was opened.
C12_CancelRestores ==
    [][(IsSome(app.editor) /\ turn'.event # Key("Enter")) =>
           /\ Frame(app', disk') = Frame(app, disk)
           /\ turn'.event = Key("Esc") => Browsing(app')]_vars

\* Esc was pressed in Editing-Text after the draft had been changed, with the
\* cursor away from the top
C12_Witness ==
    /\ Handled(Key("Esc"))
    /\ EditingText(turn.app)
    /\ Unwrap(turn.app.editor).input # Prefill(turn.app, Unwrap(turn.app.editor).config)
    /\ turn.app.list_state # Some(0)
    /\ Browsing(app)

(***************************************************************************)
(* Activation in Browsing.                                                 *)
(***************************************************************************)
ActivateKeys == {Char(" "), Char("y"), Char("i")}

\* an event of the set evs has just been handled in Browsing
HandledInBrowsing(evs) ==
    pc \in {"draw", "done"} /\ turn.event \in evs /\ Browsing(turn.app)

\* the cursor of a is on a visible item
OnItem(a) == Selected(a) < Len(get_visible_items(a).configs)

\* the visible item under the cursor of a
ItemAtCursor(a) == get_visible_items(a).configs[Selected(a) + 1]

\* C13: activate in Browsing with the cursor on a visible Bool item stores the
\* negation of the item's boolean value (true when it had no value), changes no
\* other value, sets the dirty flag, leaves the evaluator context binding every
\* key of the store to its value, and the editor is in Browsing.
C13_ToggleFlipsBool ==
    ( /\ HandledInBrowsing(ActivateKeys)
      /\ OnItem(turn.app)
      /\ ItemAtCursor(turn.app).config_type = "Bool" ) =>
        LET n == ItemAtCursor(turn.app).name
            old == turn.app.values
        IN  /\ DOMAIN app.values = DOMAIN old \cup {n}
            /\ \A m \in DOMAIN old \ {n} : app.values[m] = old[m]
            /\ app.values[n].t = "Boolean"
            /\ n \notin DOMAIN old => app.values[n].b
            /\ (n \in DOMAIN old /\ old[n].t = "Boolean") => (app.values[n].b <=> ~old[n].b)
            /\ app.is_dirty
            /\ Synced(app)
            /\ Browsing(app)

\* the draft is the decimal text of the integer i
IsDecimalOf(draft, i) ==
    /\ parse_i64(draft) = ParseOk(i)
    /\ draft[1] # "+"
    /\ draft[1] = "0" => Len(draft) = 1

\* C14: activate in Browsing with the cursor on a visible Int, Hex or String
\* item opens an edit session on that item whose draft is the text of the
\* item's value (the decimal digits of an integer, the string itself, nothing
\* when there is no value); on a Choice item it opens an edit session with the
\* option cursor at index 0.  The value store, the dirty flag and the evaluator
\* context are as they were.
C14_ActivateOpensSession ==
    ( /\ HandledInBrowsing(ActivateKeys)
      /\ OnItem(turn.app)
      /\ ItemAtCursor(turn.app).config_type # "Bool" ) =>
        LET item == ItemAtCursor(turn.app)
            old == turn.app.values
            editor == Unwrap(app.editor)
        IN  /\ pc = "draw"
            /\ IsSome(app.editor)
            /\ editor.config = item
            /\ IF item.config_type = "Choice"
               THEN EditingChoice(app) /\ editor.choice_state = Some(0)
               ELSE /\ EditingText(app)
                    /\ item.name \notin DOMAIN old => editor.input = <<>>
                    /\ (item.name \in DOMAIN old /\ old[item.name].t = "Integer")
                           => IsDecimalOf(editor.input, old[item.name].i)
                    /\ (item.name \in DOMAIN old /\ old[item.name].t = "String")
                           => editor.input = old[item.name].s
            /\ app.values = old
            /\ app.is_dirty = turn.app.is_dirty
            /\ app.evaluator = turn.app.evaluator

\* an Int item whose value had been set to 11 was activated
C14_Witness ==
    /\ HandledInBrowsing(ActivateKeys)
    /\ OnItem(turn.app)
    /\ ItemAtCursor(turn.app).config_type = "Int"
    /\ turn.app.values[ItemAtCursor(turn.app).name] = VInteger(11)
    /\ EditingText(app)
    /\ Unwrap(app.editor).input = <<"1", "1">>

\* C15: Enter in Editing-Choice with the option cursor on an option stores that
\* option as the String value of the target item and nothing else (so the
\* stored value is a member of the item's options), sets the dirty flag, leaves
\* the evaluator context binding every key of the store to its value, and the
\* editor is in Browsing.
C15_ChoiceCommitted ==
    ( /\ Handled(Key("Enter"))
      /\ EditingChoice(turn.app)
      /\ IsSome(Unwrap(turn.app.editor).choice_state)
      /\ Unwrap(Unwrap(turn.app.editor).choice_state)
             < Len(Unwrap(Unwrap(turn.app.editor).config.options)) ) =>
        LET Committed(name, options, i) ==
                /\ app.values = MapInsert(turn.app.values, name, VString(options[i + 1]))
                /\ app.values[name].t = "String"
                /\ app.values[name].s \in Range(options)
        IN  /\ Committed(Unwrap(turn.app.editor).config.name,
                         Unwrap(Unwrap(turn.app.editor).config.options),
                         Unwrap(Unwrap(turn.app.editor).choice_state))
            /\ app.is_dirty
            /\ Synced(app)
            /\ Browsing(app)

DownKeys == {Key("Down"), Char("j")}
UpKeys == {Key("Up"), Char("k")}

\* C16: Down or Up in Editing-Choice leaves the option cursor on a valid index
\* of the target item's options: from index i of n options Down goes to
\* (i + 1) mod n and Up to (i - 1) mod n, and the subtraction len - 1 of the
\* step is never taken on an empty list of options.
C16_ChoiceCursorWraps ==
    ( /\ pc \in {"draw", "done"}
      /\ turn.event \in DownKeys \cup UpKeys
      /\ EditingChoice(turn.app) ) =>
        LET Moved(n, old, new) ==
                /\ IsSome(new) /\ Unwrap(new) < n
                /\ IsSome(old) => n >= 1
                /\ (IsSome(old) /\ turn.event \in DownKeys)
                       => Unwrap(new) = (Unwrap(old) + 1) % n
                /\ (IsSome(old) /\ turn.event \in UpKeys)
                       => Unwrap(new) = (Unwrap(old) + n - 1) % n
        IN  /\ EditingChoice(app)
            /\ Moved(Len(Unwrap(Unwrap(turn.app.editor).config.options)),
                     Unwrap(turn.app.editor).choice_state,
                     Unwrap(app.editor).choice_state)

\* the depends_on expression is absent, or it is true under a context that
\* binds exactly the values given (an expression that cannot be evaluated
\* counts as true, the policy of the visibility checks)
ShownUnder(values, depends_on) ==
    ~IsSome(depends_on)
    \/ unwrap_or(check_dependency(SetVariables(NewEvaluator, values, DOMAIN values),
                                  Unwrap(depends_on)), TRUE)

\* the items of the current node that the values of a show, in declared order
ShownItems(a) ==
    LET Shown(c) == ShownUnder(a.values, c.depends_on)
    IN  SelectSeq(get_current_node(a).configs, Shown)

\* the child nodes of the current node that the values of a show, in declared
\* order
ShownChildren(a) ==
    LET Shown(n) == ShownUnder(a.values, n.depends_on)
    IN  SelectSeq(get_current_node(a).children, Shown)

\* C17: the visible list of the current node is the items whose depends_on is
\* absent or true under the current values, then the child nodes whose
\* depends_on is absent or true under the current values, each in declared
\* order; activate acts on the item at the cursor index of this list and enter
\* on the child node at the cursor index of this list.
C17_VisibleListFiltered ==
    /\ LET Same(vis, node) ==
               /\ vis.configs = ShownItems(app)
               /\ [k \in 1..Len(vis.children) |-> node.children[vis.children[k] + 1]]
                      = ShownChildren(app)
       IN  Same(get_visible_items(app), get_current_node(app))
    /\ ( /\ HandledInBrowsing(ActivateKeys)
         /\ Selected(turn.app) < Len(ShownItems(turn.app)) ) =>
           LET Acted(item) ==
                   IF item.config_type = "Bool"
                   THEN /\ item.name \in DOMAIN app.values
                        /\ \A n \in DOMAIN turn.app.values \ {item.name} :
                               app.values[n] = turn.app.values[n]
                        /\ app.is_dirty
                   ELSE IsSome(app.editor) /\ Unwrap(app.editor).config = item
           IN  Acted(ShownItems(turn.app)[Selected(turn.app) + 1])
    /\ ( /\ HandledInBrowsing({Key("Enter"), Key("Right"), Char("l")})
         /\ Selected(turn.app) >= Len(ShownItems(turn.app))
         /\ Selected(turn.app) - Len(ShownItems(turn.app)) < Len(ShownChildren(turn.app)) ) =>
           get_current_node(app)
               = ShownChildren(turn.app)[Selected(turn.app) - Len(ShownItems(turn.app)) + 1]

\* C18: Down or Up in Browsing over a visible list of n > 0 entries moves the
\* cursor from i to (i + 1) mod n or to (i - 1) mod n; over an empty visible
\* list the cursor stays as it was.  Nothing else of the editor changes.
C18_CursorWraps ==
    HandledInBrowsing(DownKeys \cup UpKeys) =>
        LET Moved(n, old) ==
                IF n = 0 THEN app = turn.app
                ELSE /\ IsSome(old) /\ Unwrap(old) < n
                     /\ app = [turn.app EXCEPT !.list_state =
                                  IF turn.event \in DownKeys
                                  THEN Some((Unwrap(old) + 1) % n)
                                  ELSE Some((Unwrap(old) + n - 1) % n)]
        IN  Moved(VisibleTotal(turn.app), turn.app.list_state)

\* Down on the last of several visible entries went to the first
C18_Witness ==
    /\ HandledInBrowsing(DownKeys)
    /\ VisibleTotal(turn.app) >= 2
    /\ turn.app.list_state = Some(VisibleTotal(turn.app) - 1)
    /\ app.list_state = Some(0)

EnterKeys == {Key("Enter"), Key("Right"), Char("l")}

\* child r of the current node of a is visible and k visible children come
\* before it
IsVisibleChild(a, r, k) ==
    LET Counted(children) ==
            /\ is_visible_node(a, children[r + 1])
            /\ Cardinality({j \in 1..r : is_visible_node(a, children[j])}) = k
    IN  Counted(get_current_node(a).children)

\* C19: enter in Browsing with the cursor on the k-th visible child node puts
\* on the navigation path the index of that node among all children of the
\* current node, hidden ones counted, and sets the cursor to 0; with the cursor
\* on an item, or past the list, nothing changes.
C19_EnterPushesRealIndex ==
    HandledInBrowsing(EnterKeys) =>
        LET Entered(k, children) ==
                IF k >= 0 /\ k < Len(children)
                THEN \E r \in 0..(Len(get_current_node(turn.app).children) - 1) :
                         /\ IsVisibleChild(turn.app, r, k)
                         /\ app = [turn.app EXCEPT
                                       !.current_node_path = Append(@, r),
                                       !.list_state = Some(0)]
                ELSE app = turn.app
        IN  Entered(Selected(turn.app) - Len(get_visible_items(turn.app).configs),
                    get_visible_items(turn.app).children)

\* the only visible child node is the second child: entering it put 1 on the
\* path
C19_Witness ==
    /\ HandledInBrowsing(EnterKeys)
    /\ Len(get_visible_items(turn.app).children) = 1
    /\ ~is_visible_node(turn.app, get_current_node(turn.app).children[1])
    /\ app.current_node_path = Append(turn.app.current_node_path, 1)
    /\ app.list_state = Some(0)

BackKeys == {Key("Esc"), Key("Left"), Char("h")}

\* C20: back in Browsing on a non-empty navigation path removes its last
\* element and nothing before it (the cursor goes to 0, the values and the
\* dirty flag stay); on the empty path it changes nothing of the editor and
\* nothing of the file.
C20_BackPopsLast ==
    HandledInBrowsing(BackKeys) =>
        LET Popped(path) ==
                IF path = <<>>
                THEN app = turn.app
                ELSE /\ Append(app.current_node_path, path[Len(path)]) = path
                     /\ app = [turn.app EXCEPT
                                   !.current_node_path = app.current_node_path,
                                   !.list_state = Some(0)]
        IN  /\ Popped(turn.app.current_node_path)
            /\ disk = turn.disk
            /\ pc = "draw"

\* back from a node two levels down left the editor one level down
C20_Witness ==
    /\ HandledInBrowsing(BackKeys)
    /\ Len(turn.app.current_node_path) = 2
    /\ app.current_node_path = <<turn.app.current_node_path[1]>>

(***************************************************************************)
(* The evaluator called on its own: Evaluator::new, set_variable for each  *)
(* value of a map, then check_dependency on an expression.                 *)
(***************************************************************************)
\* what A and B are bound to; a name left out of the map is unbound
EvalMaps ==
    { a @@ b : a \in {<<>>} \cup {NameA :> v : v \in {VBoolean(TRUE), VBoolean(FALSE),
                                                      VInteger(0), VInteger(3),
                                                      VString(<<"x">>)}},
               b \in {<<>>, NameB :> VBoolean(TRUE)} }

\* "", " ", "  ", tab and newline, "A", " A ", "B", "(A)", "A && B", "A || B",
\* "A > 1", "0", "7", "A =="
EvalExprs ==
    { <<>>, <<" ">>, <<" ", " ">>, <<"\t", "\n">>,
      <<"A">>, <<" ", "A", " ">>, <<"B">>, <<"(", "A", ")">>,
      <<"A", " ", "&", "&", " ", "B">>, <<"A", " ", "|", "|", " ", "B">>,
      <<"A", " ", ">", " ", "1">>, <<"0">>, <<"7">>, <<"A", " ", "=", "=">> }

EvalCall(values, expr) ==
    [op |-> "check_dependency",
     ctx |-> SetVariables(NewEvaluator, values, DOMAIN values), expr |-> expr]

EvalInit ==
    /\ call \in {EvalCall(values, expr) : values \in EvalMaps, expr \in EvalExprs}
    /\ result = NoResult
    /\ items = <<>>
    /\ app = <<>>
    /\ disk = None
    /\ writable = TRUE
    /\ pc = "call"
    /\ turn = <<>>

CheckDependency ==
    /\ pc = "call"
    /\ call.op = "check_dependency"
    /\ result' = check_dependency(call.ctx, call.expr)
    /\ pc' = "returned"
    /\ UNCHANGED <<items, app, disk, writable, turn, call>>

EvalNext == CheckDependency

SpecEval == EvalInit /\ [][EvalNext]_vars

\* check_dependency has returned
Returned(op) == pc = "returned" /\ call.op = op

\* the expression has no character, or only blanks, tabs and newlines
Blank(expr) == \A k \in 1..Len(expr) : expr[k] \in {" ", "\t", "\n"}

\* C29: check_dependency answers Ok(true) for an expression that is empty or
\* made of whitespace only, whatever the context binds.
C29_BlankIsTrue ==
    (Returned("check_dependency") /\ Blank(call.expr)) => result = Ok(TRUE)

\* an expression of two blanks was checked under the empty context
C29_Witness ==
    /\ Returned("check_dependency")
    /\ call.expr = <<" ", " ">>
    /\ call.ctx = NewEvaluator
    /\ result = Ok(TRUE)

\* C30: when the expression evaluates, check_dependency answers a boolean as it
\* is, an integer as true exactly when it is not zero, and a string as false.
C30_ResultCoerced ==
    (Returned("check_dependency") /\ ~Blank(call.expr)) =>
        LET Coerced(val) ==
                val.ok =>
                    /\ val.v.t = "Boolean" => result = Ok(val.v.b)
                    /\ (val.v.t = "Integer" /\ val.v.i # 0) => result = Ok(TRUE)
                    /\ (val.v.t = "Integer" /\ val.v.i = 0) => result = Ok(FALSE)
                    /\ val.v.t = "String" => result = Ok(FALSE)
        IN  Coerced(eval_with_context(call.expr, call.ctx))

\* the expression A was checked where A is bound to 0: the answer is false
C30_Witness ==
    /\ Returned("check_dependency")
    /\ call.expr = <<"A">>
    /\ NameA \in DOMAIN call.ctx
    /\ call.ctx[NameA] = VInteger(0)
    /\ result = Ok(FALSE)

(***************************************************************************)
(* parser.rs: build_config_tree.  A directory is its path below the root,  *)
(* a sequence of one-letter names; the map nodes holds the node read from  *)
(* the Kconfig.toml of each directory that has one.                        *)
(***************************************************************************)
\* Path::parent
Parent(path) == SubSeq(path, 1, Len(path) - 1)

\* rel_path.to_string_lossy()
RECURSIVE PathString(_)
PathString(path) ==
    IF path = <<>> THEN <<>>
    ELSE IF Len(path) = 1 THEN <<path[1]>>
    ELSE PathString(Parent(path)) \o <<"/", path[Len(path)]>>

\* the order of two paths with the same number of components as keys of the
\* BTreeMap
RECURSIVE PathLess(_, _, _)
PathLess(p, q, k) ==
    IF k > Len(p) THEN FALSE
    ELSE IF p[k] # q[k] THEN CharOrd(p[k]) < CharOrd(q[k])
    ELSE PathLess(p, q, k + 1)

\* the keys after sort_by_key(Reverse(components().count())): the deepest
\* first, and the order of the map among paths of one depth (the sort is stable)
RECURSIVE SortedPaths(_)
SortedPaths(S) ==
    IF S = {} THEN <<>>
    ELSE LET first == CHOOSE p \in S : \A q \in S \ {p} :
                          Len(p) > Len(q) \/ (Len(p) = Len(q) /\ PathLess(p, q, 1))
         IN  <<first>> \o SortedPaths(S \ {first})

\* a bug: every node is attached to the root
NearestPresent_Root(nodes, parent_path) == <<>>

\* the while loop: the nearest ancestor that is a key of nodes, or the empty path
RECURSIVE NearestPresent(_, _)
NearestPresent(nodes, parent_path) ==
    IF parent_path # <<>> /\ parent_path \notin DOMAIN nodes
    THEN NearestPresent(nodes, Parent(parent_path))
    ELSE parent_path

\* the loop over the sorted paths
RECURSIVE Assemble(_, _, _)
Assemble(nodes, paths, k) ==
    IF k > Len(paths) THEN nodes
    ELSE IF paths[k] = <<>> THEN Assemble(nodes, paths, k + 1)
    ELSE LET current_node == nodes[paths[k]]
             Attach(removed, parent_path) ==
                 IF parent_path \in DOMAIN removed
                 THEN [removed EXCEPT ![parent_path].children = Append(@, current_node)]
                 ELSE nodes
             Removed(removed) == Attach(removed, NearestPresent(removed, Parent(paths[k])))
         IN  Assemble(Removed([q \in DOMAIN nodes \ {paths[k]} |-> nodes[q]]), paths, k + 1)

\* Result<ConfigNode>
TreeOk(tree) == [ok |-> TRUE, tree |-> tree, flat |-> <<>>]
TreeErr == [ok |-> FALSE, tree |-> <<>>, flat |-> <<>>]

build_config_tree(nodes) ==
    LET Root(assembled) ==
            IF <<>> \in DOMAIN assembled THEN TreeOk(assembled[<<>>]) ELSE TreeErr
    IN  Root(Assemble(nodes, SortedPaths(DOMAIN nodes), 1))

(***************************************************************************)
(* The directories handed to build_config_tree: every set of paths of at   *)
(* most MaxDepth names a or b.  The root holds two items, a directory a    *)
(* as many as its depth, a directory b none.                               *)
(***************************************************************************)
DirNames == {"a", "b"}

Paths == UNION {[1..d -> DirNames] : d \in 0..MaxDepth}

ItemsOf(path) ==
    LET count == IF path = <<>> THEN 2 ELSE IF path[Len(path)] = "a" THEN Len(path) ELSE 0
    IN  [k \in 1..count |-> create_item(PathString(path) \o <<"#", DigitChar(k)>>, None)]

\* the node of lines 34-43 for the Kconfig.toml of a directory
NodeOf(path) == ConfigNode(PathString(path), ItemsOf(path), <<>>, PathString(path), None)

TreeCall(S) == [op |-> "parse_kconfigs", nodes |-> [path \in S |-> NodeOf(path)]]

TreeInit ==
    /\ call \in {TreeCall(S) : S \in SUBSET Paths}
    /\ result = NoResult
    /\ items = <<>>
    /\ app = <<>>
    /\ disk = None
    /\ writable = TRUE
    /\ pc = "call"
    /\ turn = <<>>

\* parse_kconfigs: build_config_tree(root)?
BuildTree ==
    /\ pc = "call"
    /\ call.op = "parse_kconfigs"
    /\ result' = build_config_tree(call.nodes)
    /\ pc' = IF result'.ok THEN "built" ELSE "returned"
    /\ UNCHANGED <<items, app, disk, writable, turn, call>>

\* parse_kconfigs: Ok(flatten_configs(&tree))
Flatten ==
    /\ pc = "built"
    /\ result' = [result EXCEPT !.flat = flatten_configs(result.tree)]
    /\ pc' = "returned"
    /\ UNCHANGED <<items, app, disk, writable, turn, call>>

TreeNext == BuildTree \/ Flatten

SpecTree == TreeInit /\ [][TreeNext]_vars

\* the nodes of a tree, each counted as often as it occurs
RECURSIVE NodeCount(_)
RECURSIVE ChildrenCount(_, _)
ChildrenCount(children, k) ==
    IF k > Len(children) THEN 0
    ELSE NodeCount(children[k]) + ChildrenCount(children, k + 1)

NodeCount(node) == 1 + ChildrenCount(node.children, 1)

\* the longest proper prefix of path that is in S, the root when there is none
NearestAncestor(path, S) ==
    LET above == {q \in S : Len(q) < Len(path) /\ q = SubSeq(path, 1, Len(q))}
    IN  IF above = {} THEN <<>>
        ELSE CHOOSE q \in above : \A r \in above : Len(r) <= Len(q)

\* C27: build_config_tree succeeds exactly when the empty path is among the
\* directories; the tree then holds each directory's node once, every node but
\* the root as a child of the node of its nearest ancestor directory among them,
\* and each node with the items, the title and the path it was read with.
C27_TreeBuilt ==
    (pc \in {"built", "returned"} /\ call.op = "parse_kconfigs") =>
        /\ result.ok <=> <<>> \in DOMAIN call.nodes
        /\ result.ok =>
               /\ result.tree.path = <<>>
               /\ NodeCount(result.tree) = Cardinality(DOMAIN call.nodes)
               /\ {n.path : n \in Nodes(result.tree)}
                      = {PathString(q) : q \in DOMAIN call.nodes}
               /\ \A q \in DOMAIN call.nodes :
                      \E n \in Nodes(result.tree) :
                          /\ n.path = PathString(q)
                          /\ n.configs = call.nodes[q].configs
                          /\ n.desc = call.nodes[q].desc
                          /\ \A k \in DOMAIN n.children :
                                 \E c \in DOMAIN call.nodes :
                                     /\ n.children[k].path = PathString(c)
                                     /\ NearestAncestor(c, DOMAIN call.nodes) = q

\* a/a was read without a: its node hangs below the root, beside b
C27_Witness ==
    /\ pc = "built"
    /\ DOMAIN call.nodes = {<<>>, <<"a", "a">>, <<"b">>}
    /\ Len(result.tree.children) = 2
    /\ result.tree.children[1].path = <<"a", "/", "a">>
    /\ result.tree.children[1].configs = ItemsOf(<<"a", "a">>)

\* the items of a tree by where they are: the child indices down to the node,
\* counted from 0, and the place among the node's items
RECURSIVE Addresses(_, _)
Addresses(node, path) ==
    {<<path, i>> : i \in DOMAIN node.configs}
    \cup UNION {Addresses(node.children[k], Append(path, k - 1)) : k \in DOMAIN node.children}

\* a comes before b in pre-order: earlier in the same node, or in a node above
\* the node of b, or in a subtree to the left
RECURSIVE Leftward(_, _, _)
Leftward(p, q, k) ==
    IF k > Len(p) THEN TRUE
    ELSE IF k > Len(q) THEN FALSE
    ELSE IF p[k] # q[k] THEN p[k] < q[k]
    ELSE Leftward(p, q, k + 1)

Before(a, b) == IF a[1] = b[1] THEN a[2] < b[2] ELSE Leftward(a[1], b[1], 1)

\* C28: flatten_configs returns the items of the tree in pre-order, each place
\* of the tree once: an item stands after exactly the items that come before
\* it in pre-order.
C28_FlattenPreOrder ==
    (pc = "returned" /\ call.op = "parse_kconfigs" /\ result.ok) =>
        LET PreOrder(addrs) ==
                /\ Len(result.flat) = Cardinality(addrs)
                /\ \A a \in addrs :
                       result.flat[1 + Cardinality({b \in addrs : Before(b, a)})]
                           = Descend(result.tree, a[1], 1).configs[a[2]]
        IN  PreOrder(Addresses(result.tree, <<>>))

\* a tree of three levels with items at each was flattened
C28_Witness ==
    /\ pc = "returned"
    /\ result.ok
    /\ DOMAIN call.nodes = {<<>>, <<"a">>, <<"a", "a">>, <<"b">>, <<"b", "a">>}
    /\ Len(result.flat) = 7
    /\ result.flat[3] = ItemsOf(<<"a">>)[1]

(***************************************************************************)
(* main.rs: the commands check, savedefconfig and defconfig, and           *)
(* ConfigItem::validate called on its own.                                 *)
(***************************************************************************)
CheckOk == [ok |-> TRUE, message |-> ""]
CheckErr(message) == [ok |-> FALSE, message |-> message]

\* the loop of Commands::Check over the items
RECURSIVE CheckItems(_, _)
CheckItems(configs, k) ==
    IF k > Len(configs) THEN CheckOk
    ELSE IF IsSome(configs[k].default) /\ ~validate(configs[k], Unwrap(configs[k].default))
    THEN CheckErr("Invalid default value")
    ELSE IF /\ configs[k].config_type = "Choice"
            /\ (~IsSome(configs[k].options) \/ Unwrap(configs[k].options) = <<>>)
    THEN CheckErr("is a choice but has no options")
    ELSE CheckItems(configs, k + 1)

\* a bug: the reference graph is not built
check_SkipsGraph(configs) == CheckItems(configs, 1)

\* Commands::Check, given the flattened items
check(configs) ==
    LET Built(r) == IF r.kind # "ok" THEN CheckErr(r.kind) ELSE CheckItems(configs, 1)
    IN  Built(build(configs))

NameR == <<"R">>
NameU == <<"U">>
NameZ == <<"Z">>

\* B: a Bool; P: an Int in 1..10; H: a Hex with no range and no default; S: a
\* String that must match ^[a-z]+$; U: a String with no regex and no default;
\* M: a Choice of lo and hi; T: a Bool whose declared default is the integer 0
StoreItems ==
    << ConfigItem(NameB, "Bool", Some(VBoolean(FALSE)), None, None, None, None),
       ConfigItem(NameP, "Int", Some(VInteger(5)), None, None, Some(<<1, 10>>), None),
       ConfigItem(NameH, "Hex", None, None, None, None, None),
       ConfigItem(NameS, "String", Some(VString(<<"x">>)), None, None, None,
                  Some(<<"^", "[", "a", "-", "z", "]", "+", "$">>)),
       ConfigItem(NameU, "String", None, None, None, None, None),
       ConfigItem(NameM, "Choice", Some(VString(OptLo)), None, Some(<<OptLo, OptHi>>),
                  None, None),
       ConfigItem(NameT, "Bool", Some(VInteger(0)), None, None, None, None) >>

\* E: a Choice with an empty list of options; N: a Choice with no options; G: an
\* Int in 1..10 whose default is 0; R: a String whose regex does not compile
OddItems ==
    { ConfigItem(NameE, "Choice", None, None, Some(<<>>), None, None),
      ConfigItem(NameN, "Choice", Some(VString(OptLo)), None, None, None, None),
      ConfigItem(NameG, "Int", Some(VInteger(0)), None, None, Some(<<1, 10>>), None),
      ConfigItem(NameR, "String", None, None, None, None, Some(<<"[">>)) }

StoreValues ==
    { VBoolean(TRUE), VInteger(0), VInteger(5), VInteger(11),
      VString(<<"x">>), VString(OptLo), VString(<<"1">>) }

ValidateCalls ==
    { [op |-> "validate", item |-> item, value |-> value] :
          item \in Range(StoreItems) \cup OddItems,
          value \in StoreValues \cup {VBoolean(FALSE), VInteger(1), VInteger(10),
                                      VString(<<>>), VString(OptHi)} }

\* the tables of at most MaxEntries entries for the names of StoreItems and Z
StoreTables ==
    UNION { [keys -> StoreValues] :
                keys \in {K \in SUBSET (ItemNames(StoreItems) \cup {NameZ}) :
                              Cardinality(K) <= MaxEntries} }

\* the config files: none, a file that is no TOML, the text of each table
StoreFiles ==
    {None, Some({<<"B", " ", "=">>})} \cup {Some(to_string_pretty(t)) : t \in StoreTables}

DefconfigCalls ==
    { [op |-> "savedefconfig", configs |-> StoreItems, config_file |-> file] :
          file \in StoreFiles }

\* the items check is run on: A and C depend on each other, D on itself, and a
\* Hex item takes the name of the Int item P
CheckPool ==
    { StoreItems[1], StoreItems[2], StoreItems[6], StoreItems[7],
      ConfigItem(NameP, "Hex", None, None, None, None, None),
      create_item(NameA, Some(<<"C">>)), create_item(NameC, Some(<<"A">>)),
      create_item(NameD, Some(<<"D">>)) }
    \cup {item \in OddItems : item.name # NameR}

CheckCalls == {[op |-> "check", configs |-> its] : its \in SeqsUpTo(CheckPool, MaxItems)}

StoreInit ==
    /\ call \in ValidateCalls \cup DefconfigCalls \cup CheckCalls
    /\ result = NoResult
    /\ items = <<>>
    /\ app = <<>>
    /\ disk = None
    /\ writable = TRUE
    /\ pc = "call"
    /\ turn = <<>>

Validate ==
    /\ pc = "call"
    /\ call.op = "validate"
    /\ result' = [ok |-> validate(call.item, call.value)]
    /\ pc' = "returned"
    /\ UNCHANGED <<items, app, disk, writable, turn, call>>

Check ==
    /\ pc = "call"
    /\ call.op = "check"
    /\ result' = check(call.configs)
    /\ pc' = "returned"
    /\ UNCHANGED <<items, app, disk, writable, turn, call>>

\* Commands::Savedefconfig: the values of config_file, and the file out that
\* holds the minimal map
Savedefconfig ==
    /\ pc = "call"
    /\ call.op = "savedefconfig"
    /\ LET Export(loaded) ==
               IF loaded.ok
               THEN LET Write(minimal) ==
                            /\ result' = [ok |-> TRUE, values |-> loaded.values,
                                          minimal |-> minimal, out |-> save_config(minimal),
                                          reloaded |-> <<>>, config_file |-> call.config_file]
                            /\ pc' = "exported"
                    IN  Write(get_minimal_config(loaded.values, call.configs))
               ELSE /\ result' = [ok |-> FALSE, values |-> <<>>, minimal |-> <<>>,
                                  out |-> None, reloaded |-> <<>>,
                                  config_file |-> call.config_file]
                    /\ pc' = "returned"
       IN  Export(load_config(call.config_file, call.configs))
    /\ UNCHANGED <<items, app, disk, writable, turn, call>>

\* Commands::Defconfig on the file out of the export: its values become the
\* config file
Defconfig ==
    /\ pc = "exported"
    /\ LET Import(loaded) ==
               result' = [result EXCEPT !.ok = loaded.ok,
                                        !.reloaded = loaded.values,
                                        !.config_file = IF loaded.ok
                                                        THEN save_config(loaded.values)
                                                        ELSE @]
       IN  Import(load_config(result.out, call.configs))
    /\ pc' = "returned"
    /\ UNCHANGED <<items, app, disk, writable, turn, call>>

StoreNext == Validate \/ Check \/ Savedefconfig \/ Defconfig

SpecStore == StoreInit /\ [][StoreNext]_vars

\* the item of the list that has the name (the names of a list are distinct)
ItemNamed(its, name) == CHOOSE item \in Range(its) : item.name = name

\* C21: load_config gives every item its declared default, and then every entry
\* of the file whose key is an item and whose value passes the validation of
\* that item replaces the default; an entry that fails it is dropped, and so is
\* an entry whose key is no item.  An item with neither has no value.
C21_LoadOverlaysValidEntries ==
    (pc \in {"exported", "returned"} /\ call.op = "savedefconfig" /\ result.ok) =>
        LET Overlaid(table, values) ==
                /\ DOMAIN values \subseteq ItemNames(call.configs)
                /\ \A item \in Range(call.configs) :
                       IF item.name \in DOMAIN table /\ validate(item, table[item.name])
                       THEN /\ item.name \in DOMAIN values
                            /\ values[item.name] = table[item.name]
                       ELSE IF IsSome(item.default)
                       THEN /\ item.name \in DOMAIN values
                            /\ values[item.name] = Unwrap(item.default)
                       ELSE item.name \notin DOMAIN values
        IN  Overlaid(IF IsSome(call.config_file)
                     THEN from_str(Unwrap(call.config_file)).table ELSE <<>>,
                     result.values)

\* the file held B = true and P = 11: B was replaced, P kept its default 5
C21_Witness ==
    /\ pc = "exported"
    /\ call.config_file = Some({Line(NameB, <<"t", "r", "u", "e">>), Line(NameP, <<"1", "1">>)})
    /\ result.values[NameB] = VBoolean(TRUE)
    /\ result.values[NameP] = VInteger(5)

\* C22: whenever the config file holds what save_config wrote for the value
\* store of the editor, load_config of that file against the items of the
\* editor returns the value store, the same value for every key.
C22_SaveLoadRoundTrip ==
    (pc \in {"draw", "done"} /\ disk = save_config(app.values)) =>
        load_config(disk, flattened_items(app)) = LoadOk(app.values)

\* C23: get_minimal_config returns the entries of the value map that differ
\* from the declared default of their item, or whose item has no default, each
\* with its current value, and no other entry.
C23_MinimalIsDifference ==
    (pc \in {"exported", "returned"} /\ call.op = "savedefconfig" /\ result.ok) =>
        LET Difference(values, minimal) ==
                /\ DOMAIN minimal \subseteq DOMAIN values
                /\ \A n \in DOMAIN minimal : minimal[n] = values[n]
                /\ \A n \in DOMAIN values :
                       n \in DOMAIN minimal <=>
                           \/ ~IsSome(ItemNamed(call.configs, n).default)
                           \/ values[n] # Unwrap(ItemNamed(call.configs, n).default)
        IN  Difference(result.values, result.minimal)

\* B differs from its default, H has no default, P = 5 is the default of P
C23_Witness ==
    /\ pc = "exported"
    /\ result.values[NameB] = VBoolean(TRUE)
    /\ NameH \in DOMAIN result.values
    /\ result.values[NameP] = VInteger(5)
    /\ DOMAIN result.minimal = {NameB, NameH}

\* C24: the values load_config gives for the file that holds only the minimal
\* map are the values the minimal map was taken from.
C24_MinimalRoundTrip ==
    (pc = "returned" /\ call.op = "savedefconfig" /\ IsSome(result.out)) =>
        /\ result.ok
        /\ result.reloaded = result.values

\* a minimal map of one string and one integer was written and read back, and
\* the defaults filled the other keys
C24_Witness ==
    /\ pc = "returned"
    /\ call.op = "savedefconfig"
    /\ result.ok
    /\ result.minimal = (NameU :> VString(<<"1">>)) @@ (NameH :> VInteger(11))
    /\ result.reloaded = result.values
    /\ Cardinality(DOMAIN result.reloaded) = 7

\* C25: validate accepts a boolean for a Bool item; an integer for an Int or
\* Hex item, within min..max when a range is declared; a string for a String
\* item, matching the regex when one is declared; a string for a Choice item,
\* one of the options when options are declared; and nothing else.
C25_ValidateAccepts ==
    (pc = "returned" /\ call.op = "validate") =>
        LET Accepts(item, value) ==
                \/ item.config_type = "Bool" /\ value.t = "Boolean"
                \/ /\ item.config_type \in {"Int", "Hex"}
                   /\ value.t = "Integer"
                   /\ \/ ~IsSome(item.range)
                      \/ Unwrap(item.range)[1] <= value.i /\ value.i <= Unwrap(item.range)[2]
                \/ /\ item.config_type = "String"
                   /\ value.t = "String"
                   /\ \/ ~IsSome(item.regex)
                      \/ /\ RegexNewOk(Unwrap(item.regex))
                         /\ regex_is_match(Unwrap(item.regex), value.s)
                \/ /\ item.config_type = "Choice"
                   /\ value.t = "String"
                   /\ \/ ~IsSome(item.options)
                      \/ \E k \in DOMAIN Unwrap(item.options) :
                             Unwrap(item.options)[k] = value.s
        IN  result.ok <=> Accepts(call.item, call.value)

\* 10 was accepted for an Int in 1..10
C25_Witness ==
    /\ pc = "returned"
    /\ call.op = "validate"
    /\ call.item.range = Some(<<1, 10>>)
    /\ call.value = VInteger(10)
    /\ result.ok

\* C26: check fails when the default of some item does not pass the validation
\* of that item, and when some Choice item has no options or an empty list of
\* options; it reports the configuration valid exactly when, besides, the
\* reference graph of the items has no cycle.
C26_CheckVerdict ==
    (pc = "returned" /\ call.op = "check") =>
        LET BadDefault(item) ==
                IsSome(item.default) /\ ~validate(item, Unwrap(item.default))
            NoOptions(item) ==
                /\ item.config_type = "Choice"
                /\ (item.options = None \/ item.options = Some(<<>>))
        IN  result.ok <=>
                /\ ~HasRefCycle(call.configs)
                /\ \A item \in Range(call.configs) : ~BadDefault(item) /\ ~NoOptions(item)

\* three sound items without a cycle were reported valid
C26_Witness ==
    /\ pc = "returned"
    /\ call.op = "check"
    /\ Len(call.configs) = 3
    /\ Cardinality(ItemNames(call.configs)) = 3
    /\ result.ok

(***************************************************************************)
(* graph.rs: extract_variables called on its own.                          *)
(***************************************************************************)
ExprChars == {"A", "b", "_", "1", " ", "&", "("}

TokenInit ==
    /\ call \in {[op |-> "extract_variables", expr |-> expr] :
                     expr \in SeqsUpTo(ExprChars, MaxExpr)}
    /\ result = NoResult
    /\ items = <<>>
    /\ app = <<>>
    /\ disk = None
    /\ writable = TRUE
    /\ pc = "call"
    /\ turn = <<>>

ExtractVariables ==
    /\ pc = "call"
    /\ call.op = "extract_variables"
    /\ result' = [vars |-> extract_variables(call.expr)]
    /\ pc' = "returned"
    /\ UNCHANGED <<items, app, disk, writable, turn, call>>

TokenNext == ExtractVariables

SpecTokens == TokenInit /\ [][TokenNext]_vars

\* a letter, a digit or the underscore
WordChar(c) == c \in Letters \cup Digits \cup {"_"}

\* the positions where a maximal run of word characters begins
RunStarts(expr) ==
    {i \in 1..Len(expr) : WordChar(expr[i]) /\ (i = 1 \/ ~WordChar(expr[i - 1]))}

\* the last position of the run that begins at i
RunEnd(expr, i) ==
    CHOOSE j \in i..Len(expr) :
        /\ \A k \in i..j : WordChar(expr[k])
        /\ j = Len(expr) \/ ~WordChar(expr[j + 1])

\* the k-th smallest member of a set of numbers
Kth(S, k) == CHOOSE n \in S : Cardinality({m \in S : m < n}) = k - 1

\* the nodes from the root down to the current node
RECURSIVE PathNodes(_, _, _)
PathNodes(node, path, k) ==
    IF k > Len(path) THEN <<node>>
    ELSE <<node>> \o PathNodes(node.children[path[k] + 1], path, k + 1)

C35_PathVisible ==
    pc \in {"draw", "event"} =>
        \A k \in 1..(Len(app.current_node_path) + 1) :
            is_visible_node([app EXCEPT !.evaluator =
                                 SetVariables(NewEvaluator, app.values, DOMAIN app.values)],
                            PathNodes(root_node(app), app.current_node_path, 1)[k])

\* C38: while the dirty flag is clear the value store is the map the editor
\* loaded at startup or the map the last successful save wrote; an event that
\* changes a value of the store leaves the flag set; and the flag goes from set
\* to clear only when the store has been written to the config file.
C38_DirtyTracksStore ==
    pc \in {"draw", "event", "done"} =>
        /\ ~app.is_dirty =>
               \/ disk = save_config(app.values)
               \/ load_config(disk, flattened_items(app)) = LoadOk(app.values)
        /\ app.values # turn.app.values => app.is_dirty
        /\ (turn.app.is_dirty /\ ~app.is_dirty) =>
               /\ IsChar(turn.event, {"s", "y", "Y"})
               /\ app.values = turn.app.values
               /\ disk = save_config(app.values)

\* s has written a store that differs from what the file held at startup, and
\* the flag is clear
C38_Witness ==
    /\ Handled(Char("s"))
    /\ turn.app.is_dirty
    /\ ~app.is_dirty
    /\ disk = save_config(app.values)
    /\ load_config(turn.disk, flattened_items(app)) # LoadOk(app.values)

\* C39: the loop ends only on q in Browsing with the dirty flag clear, or on y
\* or n in QuitConfirm; and unless it ended on n, the config file then holds
\* the value store: it is what save wrote for the store, or the store is what
\* the file loads to.
C39_TerminatesSaved ==
    pc = "done" =>
        /\ \/ Browsing(turn.app) /\ turn.event = Char("q") /\ ~turn.app.is_dirty
           \/ QuitConfirm(turn.app) /\ IsChar(turn.event, {"y", "Y", "n", "N"})
        /\ ~(QuitConfirm(turn.app) /\ IsChar(turn.event, {"n", "N"})) =>
               \/ disk = save_config(app.values)
               \/ load_config(disk, flattened_items(app)) = LoadOk(app.values)

\* C40: in every state where the loop has not ended, at most one of the edit
\* session, the notification and the quit confirmation is there, and the quit
\* confirmation is there only while the dirty flag is set.
C40_OneOverlay ==
    pc \in {"draw", "event"} =>
        /\ ~(IsSome(app.editor) /\ IsSome(app.notification))
        /\ ~(IsSome(app.editor) /\ app.show_quit_confirm)
        /\ ~(IsSome(app.notification) /\ app.show_quit_confirm)
        /\ app.show_quit_confirm => app.is_dirty

\* q was pressed with unsaved changes: the quit confirmation is the one overlay
C40_Witness ==
    /\ Handled(Char("q"))
    /\ pc = "draw"
    /\ app.show_quit_confirm
    /\ app.is_dirty
    /\ ~IsSome(app.editor)
    /\ ~IsSome(app.notification)

\* the kind of scalar an item of the type holds
KindOf(config_type) ==
    IF config_type = "Bool" THEN "Boolean"
    ELSE IF config_type \in {"Int", "Hex"} THEN "Integer"
    ELSE "String"

\* C36: when Enter confirms an edit session of an Int, Hex or String item
\* whose draft is still the text the session was opened with, the value of the
\* item is the value it had before.
C36_ConfirmUnchangedDraft ==
    ( /\ Handled(Key("Enter"))
      /\ EditingText(turn.app)
      /\ Unwrap(turn.app.editor).config.name \in DOMAIN turn.app.values
      /\ turn.app.values[Unwrap(turn.app.editor).config.name].t =
             KindOf(Unwrap(turn.app.editor).config.config_type)
      /\ Unwrap(turn.app.editor).input =
             Prefill(turn.app, Unwrap(turn.app.editor).config) ) =>
        /\ Unwrap(turn.app.editor).config.name \in DOMAIN app.values
        /\ app.values[Unwrap(turn.app.editor).config.name] =
               turn.app.values[Unwrap(turn.app.editor).config.name]

\* C37: in every state of the editor, every integer of the store whose item
\* declares a range lies within it, and every string of the store whose item
\* declares a regex matches it.
C37_StoreWithinConstraints ==
    pc \in {"draw", "event", "done"} =>
        \A k \in DOMAIN flattened_items(app) :
            LET Within(item) ==
                    item.name \in DOMAIN app.values =>
                        /\ ( /\ item.config_type \in {"Int", "Hex"}
                             /\ app.values[item.name].t = "Integer"
                             /\ IsSome(item.range) ) =>
                               /\ Unwrap(item.range)[1] <= app.values[item.name].i
                               /\ app.values[item.name].i <= Unwrap(item.range)[2]
                        /\ ( /\ item.config_type = "String"
                             /\ app.values[item.name].t = "String"
                             /\ IsSome(item.regex) ) =>
                               /\ RegexNewOk(Unwrap(item.regex))
                               /\ regex_is_match(Unwrap(item.regex), app.values[item.name].s)
            IN  Within(flattened_items(app)[k])

\* C31: in every state of the editor, every key of the value store is the name
\* of an item of the schema, and its value is a boolean for a Bool item, an
\* integer for an Int or Hex item, a string for a String or Choice item.
C31_StoreWellTyped ==
    pc \in {"draw", "event", "done"} =>
        \A key \in DOMAIN app.values :
            /\ IsSome(FindItem(flattened_items(app), key))
            /\ app.values[key].t = KindOf(Unwrap(FindItem(flattened_items(app), key)).config_type)

\* C32: a schema that check reports valid declares every item name once.
C32_AcceptedNamesUnique ==
    (Returned("check") /\ result.ok) =>
        \A j, k \in DOMAIN call.configs :
            call.configs[j].name = call.configs[k].name => j = k

\* C33: extract_variables returns, in the order they appear, the maximal runs
\* of letters, digits and underscores of the expression that do not begin with
\* a digit, and nothing else.
C33_TokensAreWordRuns ==
    Returned("extract_variables") =>
        LET Runs(starts) ==
                /\ Len(result.vars) = Cardinality(starts)
                /\ \A k \in 1..Len(result.vars) :
                       result.vars[k] =
                           SubSeq(call.expr, Kth(starts, k), RunEnd(call.expr, Kth(starts, k)))
        IN  Runs({i \in RunStarts(call.expr) : call.expr[i] \notin Digits})

\* "A&b" gave A and b
C33_Witness ==
    /\ Returned("extract_variables")
    /\ call.expr = <<"A", "&", "b">>
    /\ result.vars = <<NameA, <<"b">>>>

====
